---- MODULE Spec2Model ----
(***************************************************************************)
(* StrangeNames: a word-embedding vocabulary projected into 3D by six      *)
(* axis words.  This module models src/src/embeddings.js,                  *)
(* src/src/projection.js and the load / launch handlers of                 *)
(* src/src/main.js.                                                        *)
(*                                                                         *)
(* Numbers.  A JavaScript number x is the integer round(x * Unit)          *)
(* (fixed point), or NaN.  Every arithmetic operator rounds to nearest     *)
(* and propagates NaN as IEEE-754 does.  A store into a Float32Array       *)
(* keeps F32Mantissa significant steps only (fround).                      *)
(*                                                                         *)
(* Strings.  A word is a sequence of one-character strings, so that the    *)
(* regular expression of the quality filter is modelled by what it         *)
(* matches.                                                                *)
(*                                                                         *)
(* Indices.  Vocabulary indices are 0-based as in the source; the TLA+     *)
(* sequence holding the vocabulary is 1-based, so word i is words[i + 1].  *)
(***************************************************************************)
EXTENDS Integers, Sequences, FiniteSets, TLC

VARIABLES
    vocabData,      \* main.js:25   NoVocab or [words, vectors, dims]
    modelReady,     \* main.js:26
    pipeline,       \* embeddings.js:15  _pipeline: NULL or the loaded feature-extraction model
    vocabLoad,      \* main.js:44-56  the loadVocabulary() call and its then / catch: [pc, ...]
    modelLoad,      \* main.js:58-70  the loadModel() call and its then / catch: a pc
    launchDisabled, \* launchBtn.disabled
    errorText,      \* errorEl.textContent
    screen,         \* [setupHidden, loadingHidden]: the 'hidden' class of setupEl and loadingEl
    launches,       \* the click handlers in flight or finished, in click order
    scenes,         \* what startScene built, one entry per call
    fn_pc,          \* harness of the pure-function specifications
    fn_args,
    fn_ret

vars == <<vocabData, modelReady, pipeline, vocabLoad, modelLoad, launchDisabled,
          errorText, screen, launches, scenes, fn_pc, fn_args, fn_ret>>

progVars == <<vocabData, modelReady, pipeline, vocabLoad, modelLoad, launchDisabled,
              errorText, screen, launches, scenes>>

fnVars == <<fn_pc, fn_args, fn_ret>>

NULL == "null"

\* vocabData = null (main.js:25), as a record so that it compares with a loaded vocabulary
NoVocab == [null |-> TRUE]

(***************************************************************************)
(* Bounds of the model                                                     *)
(***************************************************************************)
Unit == 100
F32Mantissa == 100
MaxVocab == 3
MaxTopK == 2
MaxDims == 2
MaxComp == 1
MaxBuf == 6
MaxLaunches == 2
MaxSprites == 3
MaxCount == 3

(***************************************************************************)
(* JavaScript numbers                                                      *)
(***************************************************************************)
NaN == -1000000000

\* Infinity; -Infinity is its negation.  Only compared, never computed with.
Infinity == 2000000000

Abs(x) == IF x < 0 THEN -x ELSE x

Min(a, b) == IF a < b THEN a ELSE b

Max(a, b) == IF a > b THEN a ELSE b

\* a / b rounded to the nearest integer, b > 0, symmetric about 0
RoundDiv(a, b) ==
    IF a >= 0 THEN (2 * a + b) \div (2 * b)
    ELSE -((2 * (-a) + b) \div (2 * b))

RECURSIVE SqrtSearch(_, _, _)
\* the largest r in lo..hi with r * r <= n
SqrtSearch(n, lo, hi) ==
    IF lo >= hi THEN lo
    ELSE LET mid == (lo + hi + 1) \div 2
         IN  IF mid * mid <= n THEN SqrtSearch(n, mid, hi)
             ELSE SqrtSearch(n, lo, mid - 1)

\* TLC integers are 32-bit: r * r stays below 2^31
ISqrt(n) == SqrtSearch(n, 0, Min(n, 46340))

fAdd(a, b) == IF a = NaN \/ b = NaN THEN NaN ELSE a + b

fSub(a, b) == IF a = NaN \/ b = NaN THEN NaN ELSE a - b

fMul(a, b) == IF a = NaN \/ b = NaN THEN NaN ELSE RoundDiv(a * b, Unit)

\* the program divides by zero only as 0 / 0 (NaN)
fDiv(a, b) ==
    IF a = NaN \/ b = NaN \/ b = 0 THEN NaN
    ELSE IF b > 0 THEN RoundDiv(a * Unit, b)
    ELSE RoundDiv((-a) * Unit, -b)

\* r = floor(sqrt(n)), rounded to the nearest integer
SqrtRound(n, r) == IF n - r * r > r THEN r + 1 ELSE r

fSqrt(a) ==
    IF a = NaN \/ a < 0 THEN NaN
    ELSE SqrtRound(a * Unit, ISqrt(a * Unit))

fGt(a, b) == a # NaN /\ b # NaN /\ a > b

fLt(a, b) == a # NaN /\ b # NaN /\ a < b

RECURSIVE Ulp32(_)
Ulp32(m) == IF m < F32Mantissa THEN 1 ELSE 10 * Ulp32(m \div 10)

\* Math.fround: what a Float32Array element holds after a store
fround(x) ==
    IF x = NaN THEN NaN
    ELSE LET u == Ulp32(Abs(x)) IN RoundDiv(x, u) * u

(***************************************************************************)
(* Words                                                                   *)
(***************************************************************************)
LowerAlpha == {"a", "b", "c", "d", "e", "f", "g", "h", "i", "j", "k", "l", "m",
               "n", "o", "p", "q", "r", "s", "t", "u", "v", "w", "x", "y", "z"}

WORD_RE_MIN == 3
WORD_RE_MAX == 15

isQualityWord_off_by_one(word) ==
    /\ Len(word) >= WORD_RE_MIN - 1
    /\ Len(word) <= WORD_RE_MAX + 1
    /\ \A i \in 1..Len(word) : word[i] \in LowerAlpha

\* /^[a-z]{3,15}$/.test(word)
isQualityWord(word) ==
    /\ Len(word) >= WORD_RE_MIN
    /\ Len(word) <= WORD_RE_MAX
    /\ \A i \in 1..Len(word) : word[i] \in LowerAlpha

(***************************************************************************)
(* embeddings.js: cosineSimilarity, getVector                              *)
(***************************************************************************)
\* b[i] of a typed array read past its end is undefined, NaN in arithmetic
At(b, i) == IF i \in 1..Len(b) THEN b[i] ELSE NaN

RECURSIVE Dot(_, _, _)
Dot(a, b, n) == IF n = 0 THEN 0 ELSE fAdd(Dot(a, b, n - 1), fMul(a[n], At(b, n)))

RECURSIVE SumSqA(_, _)
SumSqA(a, n) == IF n = 0 THEN 0 ELSE fAdd(SumSqA(a, n - 1), fMul(a[n], a[n]))

RECURSIVE SumSqB(_, _)
SumSqB(b, n) == IF n = 0 THEN 0 ELSE fAdd(SumSqB(b, n - 1), fMul(At(b, n), At(b, n)))

\* lines 139-142, given the three sums of the loop
CosineOf_no_guard(dot, magA, magB) == fDiv(dot, fMul(magA, magB))

CosineOf(dot, magA, magB) ==
    IF magA = 0 \/ magB = 0 THEN 0
    ELSE fDiv(dot, fMul(magA, magB))

cosineSimilarity(a, b) ==
    CosineOf(Dot(a, b, Len(a)), fSqrt(SumSqA(a, Len(a))), fSqrt(SumSqB(b, Len(a))))

\* vectors.subarray(start, start + dims), clamped to the buffer
getVector(index, vectors, dims) ==
    LET start == Min(index * dims, Len(vectors))
        end == Min(index * dims + dims, Len(vectors))
    IN  SubSeq(vectors, start + 1, end)

(***************************************************************************)
(* projection.js: selectWordsForAxes                                       *)
(***************************************************************************)
AxisDiff(vec, pos, neg) == fSub(cosineSimilarity(vec, pos), cosineSimilarity(vec, neg))

\* Math.sqrt(dx * dx + dy * dy + dz * dz)
Norm3(dx, dy, dz) == fSqrt(fAdd(fAdd(fMul(dx, dx), fMul(dy, dy)), fMul(dz, dz)))

\* lines 51-55: the relevance magnitude of vocabulary row i, before the store
RawMagnitudeOf(vec, axisVectors) ==
    Norm3(AxisDiff(vec, axisVectors.xPos, axisVectors.xNeg),
          AxisDiff(vec, axisVectors.yPos, axisVectors.yNeg),
          AxisDiff(vec, axisVectors.zPos, axisVectors.zNeg))

RawMagnitude(vocab, axisVectors, i) ==
    RawMagnitudeOf(getVector(i, vocab.vectors, vocab.dims), axisVectors)

isFiltered_quality_only(word, axisWords) == ~isQualityWord(word)

\* line 46
isFiltered(word, axisWords) == word \in axisWords \/ ~isQualityWord(word)

RECURSIVE MagsFrom(_, _, _, _)
\* lines 45-56: the loop over the vocabulary, from row i on
MagsFrom(vocab, axisVectors, axisWords, i) ==
    IF ~(i < Len(vocab.words)) THEN <<>>
    ELSE <<IF isFiltered(vocab.words[i + 1], axisWords) THEN -Unit
           ELSE fround(RawMagnitude(vocab, axisVectors, i))>>
         \o MagsFrom(vocab, axisVectors, axisWords, i + 1)

\* lines 43-56: the Float32Array mags, as a sequence (mags[i] of the source is Mags(..)[i + 1])
Mags(vocab, axisVectors, axisWords) == MagsFrom(vocab, axisVectors, axisWords, 0)

\* the comparator of line 61; a NaN result counts as +0
Compare(mags, a, b) == fSub(mags[b + 1], mags[a + 1])

RECURSIVE Insert(_, _, _)
\* x goes after every element that does not compare greater than it (stable)
Insert(mags, sorted, x) ==
    IF sorted = <<>> THEN <<x>>
    ELSE IF fGt(Compare(mags, Head(sorted), x), 0) THEN <<x>> \o sorted
    ELSE <<Head(sorted)>> \o Insert(mags, Tail(sorted), x)

RECURSIVE Insert_unstable(_, _, _)
Insert_unstable(mags, sorted, x) ==
    IF sorted = <<>> THEN <<x>>
    ELSE IF ~fLt(Compare(mags, Head(sorted), x), 0) THEN <<x>> \o sorted
    ELSE <<Head(sorted)>> \o Insert_unstable(mags, Tail(sorted), x)

RECURSIVE SortFrom(_, _, _)
SortFrom(mags, sorted, i) ==
    IF i >= Len(mags) THEN sorted
    ELSE SortFrom(mags, Insert(mags, sorted, i), i + 1)

RECURSIVE SortFrom_unstable(_, _, _)
SortFrom_unstable(mags, sorted, i) ==
    IF i >= Len(mags) THEN sorted
    ELSE SortFrom_unstable(mags, Insert_unstable(mags, sorted, i), i + 1)

SortIndices_ascending(mags) ==
    LET s == SortFrom(mags, <<>>, 0)
    IN  [k \in 1..Len(s) |-> s[Len(s) + 1 - k]]

SortIndices_unstable(mags) == SortFrom_unstable(mags, <<>>, 0)

\* lines 60-61: indices 0..n-1 sorted by magnitude descending; Array.prototype.sort is stable
SortIndices(mags) == SortFrom(mags, <<>>, 0)

RECURSIVE TakeTop_no_cap(_, _, _, _, _)
TakeTop_no_cap(mags, indices, topK, i, selected) ==
    IF ~(i < Len(indices)) THEN selected
    ELSE TakeTop_no_cap(mags, indices, topK, i + 1,
            IF fGt(mags[indices[i + 1] + 1], 0)
            THEN Append(selected, indices[i + 1]) ELSE selected)

RECURSIVE TakeTop(_, _, _, _, _)
\* lines 64-69
TakeTop(mags, indices, topK, i, selected) ==
    IF ~(i < Len(indices) /\ Len(selected) < topK) THEN selected
    ELSE TakeTop(mags, indices, topK, i + 1,
            IF fGt(mags[indices[i + 1] + 1], 0)
            THEN Append(selected, indices[i + 1]) ELSE selected)

\* lines 59-71, given the magnitudes
SelectByMagnitude(mags, topK) ==
    [indices |-> TakeTop(mags, SortIndices(mags), topK, 0, <<>>), magnitudes |-> mags]

selectWordsForAxes(vocab, axisVectors, axisWords, topK) ==
    SelectByMagnitude(Mags(vocab, axisVectors, axisWords), topK)

(***************************************************************************)
(* projection.js: projectWords                                             *)
(***************************************************************************)
\* lines 90-95
RawPositionOf(word, vec, axisVectors) ==
    [word |-> word,
     x |-> AxisDiff(vec, axisVectors.xPos, axisVectors.xNeg),
     y |-> AxisDiff(vec, axisVectors.yPos, axisVectors.yNeg),
     z |-> AxisDiff(vec, axisVectors.zPos, axisVectors.zNeg)]

RECURSIVE RawPositions(_, _, _, _)
\* lines 88-96: the first pass, from position k of selectedIndices on
RawPositions(vocab, axisVectors, selectedIndices, k) ==
    IF k > Len(selectedIndices) THEN <<>>
    ELSE <<RawPositionOf(vocab.words[selectedIndices[k] + 1],
                         getVector(selectedIndices[k], vocab.vectors, vocab.dims),
                         axisVectors)>>
         \o RawPositions(vocab, axisVectors, selectedIndices, k + 1)

RECURSIVE SumValues(_, _)
\* values.reduce((a, b) => a + b, 0)
SumValues(values, n) == IF n = 0 THEN 0 ELSE fAdd(SumValues(values, n - 1), values[n])

Square(d) == fMul(d, d)

RECURSIVE SumSqDev(_, _, _)
\* values.reduce((a, v) => a + (v - mean) ** 2, 0)
SumSqDev(values, mean, n) ==
    IF n = 0 THEN 0
    ELSE fAdd(SumSqDev(values, mean, n - 1), Square(fSub(values[n], mean)))

OrOne_identity(x) == x

\* x || 1: 0 and NaN are falsy
OrOne(x) == IF x = 0 \/ x = NaN THEN Unit ELSE x

MeanOf(values) == fDiv(SumValues(values, Len(values)), Len(values) * Unit)

VarianceOf(values, mean) == fDiv(SumSqDev(values, mean, Len(values)), Len(values) * Unit)

\* lines 99-103
stddev(values) == OrOne(fSqrt(VarianceOf(values, MeanOf(values))))

ProjectedOf_magnitude_scaled(w, sdX, sdY, sdZ, scale) ==
    [word |-> w.word,
     x |-> fMul(fDiv(w.x, sdX), scale),
     y |-> fMul(fDiv(w.y, sdY), scale),
     z |-> fMul(fDiv(w.z, sdZ), scale),
     magnitude |-> fMul(Norm3(fDiv(w.x, sdX), fDiv(w.y, sdY), fDiv(w.z, sdZ)), scale)]

\* lines 110-116
ProjectedOf(w, sdX, sdY, sdZ, scale) ==
    [word |-> w.word,
     x |-> fMul(fDiv(w.x, sdX), scale),
     y |-> fMul(fDiv(w.y, sdY), scale),
     z |-> fMul(fDiv(w.z, sdZ), scale),
     magnitude |-> Norm3(fDiv(w.x, sdX), fDiv(w.y, sdY), fDiv(w.z, sdZ))]

RECURSIVE Normalize(_, _, _, _, _, _)
Normalize(raw, sdX, sdY, sdZ, scale, k) ==
    IF k > Len(raw) THEN <<>>
    ELSE <<ProjectedOf(raw[k], sdX, sdY, sdZ, scale)>>
         \o Normalize(raw, sdX, sdY, sdZ, scale, k + 1)

Column(raw, c) == [k \in 1..Len(raw) |-> raw[k][c]]

\* lines 105-116
ProjectRaw(raw, scale) ==
    Normalize(raw, stddev(Column(raw, "x")), stddev(Column(raw, "y")),
              stddev(Column(raw, "z")), scale, 1)

projectWords_skip_first(vocab, axisVectors, selectedIndices, scale) ==
    ProjectRaw(RawPositions(vocab, axisVectors, selectedIndices, 2), scale)

\* lines 84-121
projectWords(vocab, axisVectors, selectedIndices, scale) ==
    ProjectRaw(RawPositions(vocab, axisVectors, selectedIndices, 1), scale)

(***************************************************************************)
(* projection.js: getBeaconPositions                                       *)
(***************************************************************************)
PickMax(v, m) == IF fGt(v, m) THEN v ELSE m

PickMin(v, m) == IF fLt(v, m) THEN v ELSE m

RECURSIVE RunMax(_, _, _)
\* if (w.c > max) max = w.c, over the first n values, from init
RunMax(values, n, init) ==
    IF n = 0 THEN init ELSE PickMax(values[n], RunMax(values, n - 1, init))

RECURSIVE RunMin(_, _, _)
RunMin(values, n, init) ==
    IF n = 0 THEN init ELSE PickMin(values[n], RunMin(values, n - 1, init))

MaxFrom_seed_first(projected, c, init) ==
    IF Len(projected) = 0 THEN init
    ELSE RunMax(Column(projected, c), Len(projected), projected[1][c])

MaxFrom(projected, c, init) == RunMax(Column(projected, c), Len(projected), init)

MinFrom(projected, c, init) == RunMin(Column(projected, c), Len(projected), init)

pad_below_one == (8 * Unit) \div 10

\* line 141: pad = 1.2
pad == (12 * Unit) \div 10

Beacon(word, x, y, z, axis) == [word |-> word, x |-> x, y |-> y, z |-> z, axis |-> axis]

\* lines 127-150
getBeaconPositions(axes, projected) ==
    <<Beacon(axes.xNeg, fMul(MinFrom(projected, "x", 0), pad), 0, 0, "x-"),
      Beacon(axes.xPos, fMul(MaxFrom(projected, "x", 0), pad), 0, 0, "x+"),
      Beacon(axes.yPos, 0, fMul(MaxFrom(projected, "y", 0), pad), 0, "y+"),
      Beacon(axes.yNeg, 0, fMul(MinFrom(projected, "y", 0), pad), 0, "y-"),
      Beacon(axes.zPos, 0, 0, fMul(MaxFrom(projected, "z", 0), pad), "z+"),
      Beacon(axes.zNeg, 0, 0, fMul(MinFrom(projected, "z", 0), pad), "z-")>>

(***************************************************************************)
(* Word literals                                                           *)
(***************************************************************************)
W_BIG == <<"b", "i", "g">>

W_CAT == <<"c", "a", "t">>

W_OK == <<"o", "k">>

W_PARIS == <<"P", "A", "R", "I", "S">>

W_DONT == <<"d", "o", "n", "'", "t">>

W_XRAY == <<"x", "-", "r", "a", "y">>

W_B2B == <<"b", "2", "b">>

W_LEN15 == <<"c", "o", "n", "g", "r", "a", "t", "u", "l", "a", "t", "i", "o", "n", "s">>

W_LEN16 == <<"r", "e", "s", "p", "o", "n", "s", "i", "b", "i", "l", "i", "t", "i", "e", "s">>

W_SMALL == <<"s", "m", "a", "l", "l">>

W_UP == <<"u", "p">>

W_DOWN == <<"d", "o", "w", "n">>

W_HOT == <<"h", "o", "t">>

W_COLD == <<"c", "o", "l", "d">>


(***************************************************************************)
(* The inputs of the pure-function specifications                          *)
(***************************************************************************)
U == Unit

\* the corpus, in frequency rank order: a vocabulary is a sub-list of it
Corpus == <<
    W_BIG,      \* big: eligible unless it is an axis word
    W_CAT,      \* cat: eligible, the shortest length the filter keeps
    W_OK,       \* ok: too short
    W_PARIS,    \* PARIS: uppercase
    W_DONT,     \* don't: apostrophe
    W_XRAY,     \* x-ray: hyphen
    W_B2B,      \* b2b: digit
    W_LEN15,    \* congratulations: 15 letters, the longest the filter keeps
    W_LEN16     \* responsibilities: 16 letters, too long
>>

RECURSIVE SubLists(_, _)
\* the sub-lists of s (order kept) of length at most n
SubLists(s, n) ==
    IF s = <<>> \/ n = 0 THEN {<<>>}
    ELSE SubLists(Tail(s), n)
         \cup {<<Head(s)>> \o t : t \in SubLists(Tail(s), n - 1)}

\* the rows of the embedding matrix: 2-dimensional, components 0 or 1
RowPool == {<<0, 0>>, <<U, 0>>, <<0, U>>, <<U, U>>}

\* a word the filter drops for its spelling has its row never read (projection.js:46-50):
\* such a word carries one row, of non-zero magnitude under every axis set below but the second
RowsOf(word) ==
    IF word \in {W_BIG, W_CAT, W_LEN15} THEN RowPool ELSE {<<U, U>>}

RECURSIVE Flatten(_)
Flatten(rows) == IF rows = <<>> THEN <<>> ELSE Head(rows) \o Flatten(Tail(rows))

Vocabularies ==
    {[words |-> ws, vectors |-> Flatten(rows), dims |-> 2] :
        <<ws, rows>> \in UNION {{ws} \X {r \in [1..Len(ws) -> RowPool] :
                                            \A k \in 1..Len(ws) : r[k] \in RowsOf(ws[k])} :
                                 ws \in SubLists(Corpus, MaxVocab)}}

Axes(xp, xn, yp, yn, zp, zn) ==
    [xPos |-> xp, xNeg |-> xn, yPos |-> yp, yNeg |-> yn, zPos |-> zp, zNeg |-> zn]

\* the axis sets a call is made with: the six embeddings and the six literal words
AxisSets == {
    \* three opposing pairs; big is an axis word
    [vectors |-> Axes(<<U, 0>>, <<-U, 0>>, <<0, U>>, <<0, -U>>, <<U, U>>, <<-U, -U>>),
     words |-> {W_BIG, W_SMALL, W_UP, W_DOWN, W_HOT, W_COLD}],
    \* one real axis and two neutral all-zero axes; big and cat are axis words
    [vectors |-> Axes(<<U, 0>>, <<0, U>>, <<0, 0>>, <<0, 0>>, <<0, 0>>, <<0, 0>>),
     words |-> {W_BIG, W_CAT, W_UP, W_DOWN, W_HOT, W_COLD}],
    \* skewed axes, one word in two roles; no axis word is in the corpus
    [vectors |-> Axes(<<U, U>>, <<U, 0>>, <<0, U>>, <<0, U>>, <<0, U>>, <<0, 0>>),
     words |-> {W_SMALL, W_UP, W_DOWN, W_HOT, W_COLD}],
    \* embeddings narrower than the vocabulary rows
    [vectors |-> Axes(<<U>>, <<-U>>, <<U>>, <<-U>>, <<U>>, <<-U>>),
     words |-> {W_BIG, W_SMALL, W_UP, W_DOWN, W_HOT, W_COLD}]
}

SelectInputs ==
    {[vocabData |-> v, axisVectors |-> a.vectors, axisWords |-> a.words, topK |-> k] :
        v \in Vocabularies, a \in AxisSets, k \in 0..MaxTopK}

(***************************************************************************)
(* The state after construction (main.js:25-32, 84-85)                     *)
(***************************************************************************)
ProgInit ==
    /\ vocabData = NoVocab
    /\ modelReady = FALSE
    /\ pipeline = NULL
    /\ vocabLoad = [pc |-> "fetchVocab"]
    /\ modelLoad = "primary"
    /\ launchDisabled = TRUE
    /\ errorText = ""
    /\ screen = [setupHidden |-> FALSE, loadingHidden |-> TRUE]
    /\ launches = <<>>
    /\ scenes = <<>>

(***************************************************************************)
(* SpecSelect: selectWordsForAxes called on every input of SelectInputs    *)
(***************************************************************************)
InitSelect ==
    /\ ProgInit
    /\ fn_pc = "ready"
    /\ fn_args \in SelectInputs
    /\ fn_ret = NULL

CallSelect ==
    /\ fn_pc = "ready"
    /\ fn_ret' = selectWordsForAxes(fn_args.vocabData, fn_args.axisVectors,
                                    fn_args.axisWords, fn_args.topK)
    /\ fn_pc' = "returned"
    /\ UNCHANGED <<fn_args, progVars>>

NextSelect == CallSelect

SpecSelect == InitSelect /\ [][NextSelect]_vars

(***************************************************************************)
(* Claims about selectWordsForAxes, checked under SpecSelect               *)
(***************************************************************************)
SelReturned == fn_pc = "returned"

SelN == Len(fn_args.vocabData.words)

SelWord(i) == fn_args.vocabData.words[i + 1]

SelRow(i) == getVector(i, fn_args.vocabData.vectors, fn_args.vocabData.dims)

SelLen == Len(fn_ret.indices)

SelIn(i) == \E k \in 1..SelLen : fn_ret.indices[k] = i

\* 3 to 15 lowercase ASCII letters
SelWellFormed(w) == Len(w) \in 3..15 /\ \A j \in 1..Len(w) : w[j] \in LowerAlpha

SelEligible(i) == SelWellFormed(SelWord(i)) /\ SelWord(i) \notin fn_args.axisWords

\* the relevance magnitude of word i at the precision the function stores and returns it
SelMagnitude(i) == fround(RawMagnitude(fn_args.vocabData, fn_args.axisVectors, i))

RECURSIVE SelMagnitudesFrom(_)
SelMagnitudesFrom(i) ==
    IF i >= SelN THEN <<>> ELSE <<SelMagnitude(i)>> \o SelMagnitudesFrom(i + 1)

\* SelMagnitude of every word, word i at position i + 1
SelMagnitudes == SelMagnitudesFrom(0)

SelDimsMatch ==
    \A r \in {"xPos", "xNeg", "yPos", "yNeg", "zPos", "zNeg"} :
        Len(fn_args.axisVectors[r]) = fn_args.vocabData.dims

\* C1: no returned index names one of the axis words, whatever that word's
\* relevance magnitude is.
C1_AxisWordsExcluded ==
    SelReturned =>
        \A k \in 1..SelLen : SelWord(fn_ret.indices[k]) \notin fn_args.axisWords

\* an axis word of the vocabulary passes the quality filter and has a larger
\* magnitude than every selected word, and the list still has room
C1_Witness ==
    /\ SelReturned
    /\ SelLen >= 1
    /\ SelLen < fn_args.topK
    /\ \E i \in 0..(SelN - 1) :
        /\ SelWord(i) \in fn_args.axisWords
        /\ SelWellFormed(SelWord(i))
        /\ \A k \in 1..SelLen : fGt(SelMagnitude(i), SelMagnitude(fn_ret.indices[k]))

\* C2: every returned index names a word of 3 to 15 lowercase ASCII letters.
C2_OnlyQualityWords ==
    SelReturned =>
        \A k \in 1..SelLen : SelWellFormed(SelWord(fn_ret.indices[k]))

\* a 15-letter word is selected while a 16-letter word with a positive magnitude
\* is left out of a list that still has room
C2_Witness ==
    /\ SelReturned
    /\ SelLen < fn_args.topK
    /\ \E k \in 1..SelLen : Len(SelWord(fn_ret.indices[k])) = 15
    /\ \E i \in 0..(SelN - 1) :
        /\ Len(SelWord(i)) = 16
        /\ \A j \in 1..16 : SelWord(i)[j] \in LowerAlpha
        /\ fGt(SelMagnitude(i), 0)
        /\ ~SelIn(i)

\* C3: the returned list has at most topK entries, all in 0..N-1, none twice.
C3_BoundedDistinct ==
    SelReturned =>
        /\ SelLen <= fn_args.topK
        /\ \A k \in 1..SelLen : fn_ret.indices[k] \in 0..(SelN - 1)
        /\ \A p, q \in 1..SelLen : p # q => fn_ret.indices[p] # fn_ret.indices[q]

\* more words are eligible with a positive magnitude than topK, and the list is full
C3_Witness ==
    /\ SelReturned
    /\ fn_args.topK >= 1
    /\ SelLen = fn_args.topK
    /\ Cardinality({i \in 0..(SelN - 1) : SelEligible(i) /\ fGt(SelMagnitude(i), 0)})
         > fn_args.topK

\* C4 (as claimed): with embeddings of the vocabulary's width, the list holds exactly
\* min(topK, eligibleCount) indices, eligible words of magnitude 0 included.
C4_ExactCount ==
    SelReturned /\ SelDimsMatch =>
        SelLen = Min(fn_args.topK, Cardinality({i \in 0..(SelN - 1) : SelEligible(i)}))

SelDescending(m) ==
    /\ \A p, q \in 1..SelLen :
        p < q => ~fLt(m[fn_ret.indices[p] + 1], m[fn_ret.indices[q] + 1])
    /\ \A i \in 0..(SelN - 1) : \A k \in 1..SelLen :
        SelEligible(i) /\ ~SelIn(i) => ~fGt(m[i + 1], m[fn_ret.indices[k] + 1])

\* C5: the list is in descending order of relevance magnitude, and no eligible
\* word left out of it has a larger magnitude than a word in it.
C5_DescendingMagnitude == SelReturned => SelDescending(SelMagnitudes)

\* the sort moved a later word in front of an earlier one of smaller magnitude, and
\* an eligible word of positive magnitude is left out
C5_Witness ==
    /\ SelReturned
    /\ SelLen >= 2
    /\ fn_ret.indices[1] > fn_ret.indices[2]
    /\ fGt(SelMagnitude(fn_ret.indices[1]), SelMagnitude(fn_ret.indices[2]))
    /\ \E i \in 0..(SelN - 1) : SelEligible(i) /\ ~SelIn(i) /\ fGt(SelMagnitude(i), 0)

SelTiesAscending(m) ==
    \A p, q \in 1..SelLen :
        p < q /\ m[fn_ret.indices[p] + 1] = m[fn_ret.indices[q] + 1]
            => fn_ret.indices[p] < fn_ret.indices[q]

\* C6: selected words of equal relevance magnitude appear in ascending vocabulary
\* index order.
C6_TiesByIndex == SelReturned => SelTiesAscending(SelMagnitudes)

\* two selected words with different embeddings tie
C6_Witness ==
    /\ SelReturned
    /\ \E p, q \in 1..SelLen :
        /\ p < q
        /\ SelMagnitude(fn_ret.indices[p]) = SelMagnitude(fn_ret.indices[q])
        /\ SelRow(fn_ret.indices[p]) # SelRow(fn_ret.indices[q])

(***************************************************************************)
(* SpecCosine: cosineSimilarity called on every pair of small vectors      *)
(***************************************************************************)
\* the vectors of n components, each a whole number in -MaxComp..MaxComp
VectorsOfLen(n) == [1..n -> {c * Unit : c \in (-MaxComp)..MaxComp}]

SmallVectors == UNION {VectorsOfLen(n) : n \in 0..MaxDims}

InitCosine ==
    /\ ProgInit
    /\ fn_pc = "ready"
    /\ fn_args \in [a : SmallVectors, b : SmallVectors]
    /\ fn_ret = NULL

CallCosine ==
    /\ fn_pc = "ready"
    /\ fn_ret' = cosineSimilarity(fn_args.a, fn_args.b)
    /\ fn_pc' = "returned"
    /\ UNCHANGED <<fn_args, progVars>>

NextCosine == CallCosine

SpecCosine == InitCosine /\ [][NextCosine]_vars

IsZeroVector(v) == \A i \in 1..Len(v) : v[i] = 0

\* C10: for vectors of equal length, cosineSimilarity returns exactly 0 (not NaN)
\* whenever one of them has every component 0.
C10_ZeroMagnitudeGivesZero ==
    (/\ fn_pc = "returned"
     /\ Len(fn_args.a) = Len(fn_args.b)
     /\ (IsZeroVector(fn_args.a) \/ IsZeroVector(fn_args.b)))
    => fn_ret = 0

\* the second argument alone is the zero vector
C10_Witness ==
    /\ fn_pc = "returned"
    /\ Len(fn_args.a) = MaxDims
    /\ Len(fn_args.b) = MaxDims
    /\ ~IsZeroVector(fn_args.a)
    /\ IsZeroVector(fn_args.b)
    /\ fn_ret = 0

(***************************************************************************)
(* Spec: the page.  main.js initResources, the launch click handler and    *)
(* startScene, with embeddings.js loadVocabulary, loadModel, embedWords.   *)
(***************************************************************************)
Space == " "

W_BIG_RAW == <<Space, "B", "i", "g", Space>>

W_BLANK == <<Space, Space>>

\* vocab.json: the first n words of the file
VocabFile == <<W_CAT, W_LEN15, W_BIG, W_OK, W_PARIS, W_DONT, W_XRAY, W_B2B, W_LEN16>>

FileWords(n) == SubSeq(VocabFile, 1, n)

\* embeddings.bin: the first len floats of the file
BinPattern == <<U, 0, U, U, 0, U>>

FileBuffer(len) == [k \in 1..len |-> BinPattern[((k - 1) % Len(BinPattern)) + 1]]

\* embeddings.js:49-50: dims = vectors.length / words.length; Number.isInteger(dims).
\* n / 0 is Infinity or NaN, no integer.
IsIntegerDims_truncating(len, n) == n # 0

IsIntegerDims(len, n) == n # 0 /\ len % n = 0

\* embeddings.js:44-61, once both files are fetched
VocabularyOf(words, vectors) ==
    IF IsIntegerDims(Len(vectors), Len(words))
    THEN [pc |-> "resolved", words |-> words, buf |-> vectors,
          data |-> [words |-> words, vectors |-> vectors,
                    dims |-> Len(vectors) \div Len(words)]]
    ELSE [pc |-> "rejected", error |-> "Dimension mismatch", words |-> words, buf |-> vectors]

checkReady_vocab_only(vocab, ready, disabled) == IF vocab # NoVocab THEN FALSE ELSE disabled

\* main.js:76-81
checkReady(vocab, ready, disabled) == IF vocab # NoVocab /\ ready THEN FALSE ELSE disabled

\* embeddings.js:24-31
VocabFetchWords ==
    /\ vocabLoad.pc = "fetchVocab"
    /\ \E n \in 0..MaxVocab : vocabLoad' = [pc |-> "fetchBin", words |-> FileWords(n)]
    /\ UNCHANGED <<vocabData, modelReady, pipeline, modelLoad, launchDisabled, errorText,
                   screen, launches, scenes, fnVars>>

\* embeddings.js:25-30: !vocabResp.ok
VocabFetchWordsFailed ==
    /\ vocabLoad.pc = "fetchVocab"
    /\ vocabLoad' = [pc |-> "rejected", error |-> "Could not load vocab.json"]
    /\ UNCHANGED <<vocabData, modelReady, pipeline, modelLoad, launchDisabled, errorText,
                   screen, launches, scenes, fnVars>>

\* embeddings.js:36-61
VocabFetchBin ==
    /\ vocabLoad.pc = "fetchBin"
    /\ \E len \in 0..MaxBuf : vocabLoad' = VocabularyOf(vocabLoad.words, FileBuffer(len))
    /\ UNCHANGED <<vocabData, modelReady, pipeline, modelLoad, launchDisabled, errorText,
                   screen, launches, scenes, fnVars>>

\* embeddings.js:37-42: !binResp.ok
VocabFetchBinFailed ==
    /\ vocabLoad.pc = "fetchBin"
    /\ vocabLoad' = [pc |-> "rejected", error |-> "Could not load embeddings.bin"]
    /\ UNCHANGED <<vocabData, modelReady, pipeline, modelLoad, launchDisabled, errorText,
                   screen, launches, scenes, fnVars>>

\* main.js:46-51
VocabThen ==
    /\ vocabLoad.pc = "resolved"
    /\ vocabData' = vocabLoad.data
    /\ launchDisabled' = checkReady(vocabLoad.data, modelReady, launchDisabled)
    /\ vocabLoad' = [pc |-> "done"]
    /\ UNCHANGED <<modelReady, pipeline, modelLoad, errorText, screen, launches, scenes,
                   fnVars>>

\* main.js:51-56
VocabCatch ==
    /\ vocabLoad.pc = "rejected"
    /\ errorText' = vocabLoad.error
    /\ vocabLoad' = [vocabLoad EXCEPT !.pc = "failed"]
    /\ UNCHANGED <<vocabData, modelReady, pipeline, modelLoad, launchDisabled, screen,
                   launches, scenes, fnVars>>

\* The feature-extraction models, toy-sized.  all-mpnet-base-v2 is as wide as the rows
\* of the embeddings.bin built with it (2 here), all-MiniLM-L6-v2 half as wide.  A
\* model is its word -> vector table; "mpnet-null" is a model that puts every word but
\* two at the origin.
PrimaryPipelines == {"mpnet", "mpnet-null"}

FallbackPipelines == {"minilm"}

\* _pipeline(word, { pooling: 'mean', normalize: true }).data
Embedding(pipe, word) ==
    IF pipe = "mpnet" THEN
        CASE word = W_BIG -> <<U, 0>>
          [] word = W_SMALL -> <<-U, 0>>
          [] word = W_UP -> <<0, U>>
          [] word = W_DOWN -> <<0, -U>>
          [] word = W_HOT -> <<U, U>>
          [] OTHER -> <<-U, -U>>
    ELSE IF pipe = "mpnet-null" THEN
        CASE word = W_BIG -> <<U, 0>>
          [] word = W_SMALL -> <<0, U>>
          [] OTHER -> <<0, 0>>
    ELSE
        CASE word \in {W_BIG, W_UP, W_HOT} -> <<U>>
          [] OTHER -> <<-U>>

\* embeddings.js:76-89: the first model loads
ModelPrimaryLoaded ==
    /\ modelLoad = "primary"
    /\ \E pipe \in PrimaryPipelines : pipeline' = pipe
    /\ modelLoad' = "resolved"
    /\ UNCHANGED <<vocabData, modelReady, vocabLoad, launchDisabled, errorText, screen,
                   launches, scenes, fnVars>>

\* embeddings.js:90-98: the first model fails, the loop goes on to the second
ModelPrimaryFailed ==
    /\ modelLoad = "primary"
    /\ modelLoad' = "fallback"
    /\ UNCHANGED <<vocabData, modelReady, pipeline, vocabLoad, launchDisabled, errorText,
                   screen, launches, scenes, fnVars>>

ModelFallbackLoaded ==
    /\ modelLoad = "fallback"
    /\ \E pipe \in FallbackPipelines : pipeline' = pipe
    /\ modelLoad' = "resolved"
    /\ UNCHANGED <<vocabData, modelReady, vocabLoad, launchDisabled, errorText, screen,
                   launches, scenes, fnVars>>

\* embeddings.js:92-96: the last model fails
ModelFallbackFailed ==
    /\ modelLoad = "fallback"
    /\ modelLoad' = "rejected"
    /\ UNCHANGED <<vocabData, modelReady, pipeline, vocabLoad, launchDisabled, errorText,
                   screen, launches, scenes, fnVars>>

\* main.js:60-65
ModelThen ==
    /\ modelLoad = "resolved"
    /\ modelReady' = TRUE
    /\ launchDisabled' = checkReady(vocabData, TRUE, launchDisabled)
    /\ modelLoad' = "done"
    /\ UNCHANGED <<vocabData, pipeline, vocabLoad, errorText, screen, launches, scenes,
                   fnVars>>

\* main.js:65-70
ModelCatch ==
    /\ modelLoad = "rejected"
    /\ errorText' = "Could not load any transformer model"
    /\ modelLoad' = "failed"
    /\ UNCHANGED <<vocabData, modelReady, pipeline, vocabLoad, launchDisabled, screen,
                   launches, scenes, fnVars>>

(***************************************************************************)
(* main.js:88-153: the launch click handler                                *)
(***************************************************************************)
IsSpace(c) == c \in {" ", "\t", "\n"}

RECURSIVE trimStart(_)
trimStart(str) ==
    IF str # <<>> /\ IsSpace(Head(str)) THEN trimStart(Tail(str)) ELSE str

RECURSIVE trimEnd(_)
trimEnd(str) ==
    IF str # <<>> /\ IsSpace(str[Len(str)]) THEN trimEnd(SubSeq(str, 1, Len(str) - 1))
    ELSE str

trim(str) == trimEnd(trimStart(str))

UpperToLower ==
    [c \in {"A", "B", "C", "D", "E", "F", "G", "H", "I", "J", "K", "L", "M",
            "N", "O", "P", "Q", "R", "S", "T", "U", "V", "W", "X", "Y", "Z"} |->
        CASE c = "A" -> "a" [] c = "B" -> "b" [] c = "C" -> "c" [] c = "D" -> "d"
          [] c = "E" -> "e" [] c = "F" -> "f" [] c = "G" -> "g" [] c = "H" -> "h"
          [] c = "I" -> "i" [] c = "J" -> "j" [] c = "K" -> "k" [] c = "L" -> "l"
          [] c = "M" -> "m" [] c = "N" -> "n" [] c = "O" -> "o" [] c = "P" -> "p"
          [] c = "Q" -> "q" [] c = "R" -> "r" [] c = "S" -> "s" [] c = "T" -> "t"
          [] c = "U" -> "u" [] c = "V" -> "v" [] c = "W" -> "w" [] c = "X" -> "x"
          [] c = "Y" -> "y" [] c = "Z" -> "z"]

toLowerCase(str) ==
    [k \in 1..Len(str) |-> IF str[k] \in DOMAIN UpperToLower THEN UpperToLower[str[k]]
                           ELSE str[k]]

AxisRoles == {"xNeg", "xPos", "yPos", "yNeg", "zPos", "zNeg"}

\* what the six input fields hold at a click
AxisInputs == {
    [left |-> W_SMALL, right |-> W_BIG, up |-> W_UP, down |-> W_DOWN,
     forward |-> W_HOT, backward |-> W_COLD],
    [left |-> W_SMALL, right |-> W_BIG_RAW, up |-> W_BIG, down |-> W_DOWN,
     forward |-> W_HOT, backward |-> W_COLD],
    [left |-> W_SMALL, right |-> W_BIG, up |-> W_BLANK, down |-> W_DOWN,
     forward |-> W_HOT, backward |-> W_COLD]
}

\* main.js:94-101
ReadAxes(input) ==
    [xNeg |-> toLowerCase(trim(input.left)),
     xPos |-> toLowerCase(trim(input.right)),
     yPos |-> toLowerCase(trim(input.up)),
     yNeg |-> toLowerCase(trim(input.down)),
     zPos |-> toLowerCase(trim(input.forward)),
     zNeg |-> toLowerCase(trim(input.backward))]

AllFilled_left_only(axes) == axes.xNeg # <<>>

\* main.js:104-109
AllFilled(axes) == \A r \in AxisRoles : axes[r] # <<>>

\* main.js:89: !vocabData || !modelReady
StillLoading == vocabData = NoVocab \/ ~modelReady

\* main.js:89-92
ClickStillLoading ==
    /\ StillLoading
    /\ errorText' = "Still loading"
    /\ UNCHANGED <<vocabData, modelReady, pipeline, vocabLoad, modelLoad, launchDisabled,
                   screen, launches, scenes, fnVars>>

\* main.js:94-109
ClickMissingWord ==
    /\ ~StillLoading
    /\ \E input \in AxisInputs : ~AllFilled(ReadAxes(input))
    /\ errorText' = "Please fill in all 6 words."
    /\ UNCHANGED <<vocabData, modelReady, pipeline, vocabLoad, modelLoad, launchDisabled,
                   screen, launches, scenes, fnVars>>

\* main.js:94-117: up to the first await
ClickLaunchWith_distinct(input) ==
    /\ ~StillLoading
    /\ Len(launches) < MaxLaunches
    /\ AllFilled(ReadAxes(input))
    /\ \A r, q \in AxisRoles : r # q => ReadAxes(input)[r] # ReadAxes(input)[q]
    /\ launches' = Append(launches, [pc |-> "frame", axes |-> ReadAxes(input),
                                     axisVectors |-> NULL, selectedIndices |-> NULL])
    /\ errorText' = ""
    /\ screen' = [setupHidden |-> TRUE, loadingHidden |-> FALSE]
    /\ UNCHANGED <<vocabData, modelReady, pipeline, vocabLoad, modelLoad, launchDisabled,
                   scenes, fnVars>>

\* main.js:94-117: the click passes both checks and the handler runs to its first await
ClickLaunchWith(input) ==
    /\ ~StillLoading
    /\ Len(launches) < MaxLaunches
    /\ AllFilled(ReadAxes(input))
    /\ launches' = Append(launches, [pc |-> "frame", axes |-> ReadAxes(input),
                                     axisVectors |-> NULL, selectedIndices |-> NULL])
    /\ errorText' = ""
    /\ screen' = [setupHidden |-> TRUE, loadingHidden |-> FALSE]
    /\ UNCHANGED <<vocabData, modelReady, pipeline, vocabLoad, modelLoad, launchDisabled,
                   scenes, fnVars>>

ClickLaunch == \E input \in AxisInputs : ClickLaunchWith(input)

Recover_keeps_loading == [setupHidden |-> FALSE, loadingHidden |-> FALSE]

\* main.js:147-152: the catch block
Recover == [setupHidden |-> FALSE, loadingHidden |-> TRUE]

\* main.js:117-122 and embeddings.js:110-112: the frame passed, embedWords is called
LaunchFrameOf(i) ==
    /\ launches[i].pc = "frame"
    /\ IF pipeline = NULL
       THEN /\ launches' = [launches EXCEPT ![i].pc = "failed"]
            /\ screen' = Recover
            /\ errorText' = "Error: Model not loaded. Call loadModel() first."
       ELSE /\ launches' = [launches EXCEPT ![i].pc = "embed"]
            /\ UNCHANGED <<screen, errorText>>
    /\ UNCHANGED <<vocabData, modelReady, pipeline, vocabLoad, modelLoad, launchDisabled,
                   scenes, fnVars>>

LaunchFrame == \E i \in 1..Len(launches) : LaunchFrameOf(i)

\* main.js:121: [xPos, xNeg, yPos, yNeg, zPos, zNeg]
axisWordList(axes) == <<axes.xPos, axes.xNeg, axes.yPos, axes.yNeg, axes.zPos, axes.zNeg>>

\* embeddings.js:114-120
embedWords(words) == [k \in 1..Len(words) |-> Embedding(pipeline, words[k])]

\* main.js:124-131
axisVectorsOf(axisEmbeddings) ==
    [xPos |-> axisEmbeddings[1], xNeg |-> axisEmbeddings[2], yPos |-> axisEmbeddings[3],
     yNeg |-> axisEmbeddings[4], zPos |-> axisEmbeddings[5], zNeg |-> axisEmbeddings[6]]

\* main.js:122-134 and embeddings.js:114-120: the six awaits of embedWords touch no
\* state of the page and are one step here
LaunchEmbeddedOf(i) ==
    /\ launches[i].pc = "embed"
    /\ launches' = [launches EXCEPT
                        ![i].pc = "select",
                        ![i].axisVectors =
                            axisVectorsOf(embedWords(axisWordList(launches[i].axes)))]
    /\ UNCHANGED <<vocabData, modelReady, pipeline, vocabLoad, modelLoad, launchDisabled,
                   errorText, screen, scenes, fnVars>>

LaunchEmbedded == \E i \in 1..Len(launches) : LaunchEmbeddedOf(i)

\* embeddings.js:116: the model call rejects; main.js:147-152
LaunchEmbedFailedOf(i) ==
    /\ launches[i].pc = "embed"
    /\ launches' = [launches EXCEPT ![i].pc = "failed"]
    /\ screen' = Recover
    /\ errorText' = "Error: inference failed"
    /\ UNCHANGED <<vocabData, modelReady, pipeline, vocabLoad, modelLoad, launchDisabled,
                   scenes, fnVars>>

LaunchEmbedFailed == \E i \in 1..Len(launches) : LaunchEmbedFailedOf(i)

\* projection.js:38: topK = 7000
DefaultTopK == 7000

\* main.js:137: new Set(Object.values(axes))
axisWordsOf(axes) == {axes[r] : r \in AxisRoles}

\* main.js:136-143
LaunchSelectOf(i) ==
    /\ launches[i].pc = "select"
    /\ launches' = [launches EXCEPT
                        ![i].pc = "scene",
                        ![i].selectedIndices =
                            selectWordsForAxes(vocabData, launches[i].axisVectors,
                                               axisWordsOf(launches[i].axes),
                                               DefaultTopK).indices]
    /\ UNCHANGED <<vocabData, modelReady, pipeline, vocabLoad, modelLoad, launchDisabled,
                   errorText, screen, scenes, fnVars>>

LaunchSelect == \E i \in 1..Len(launches) : LaunchSelectOf(i)

\* main.js:157
SCALE == 80

\* the ranges of the scene before, widened by the new words
BoundsOf_carried(projected) ==
    LET old == IF Len(scenes) = 0
               THEN [minX |-> Infinity, maxX |-> -Infinity, minY |-> Infinity,
                     maxY |-> -Infinity, minZ |-> Infinity, maxZ |-> -Infinity]
               ELSE scenes[Len(scenes)].bounds
    IN  [minX |-> MinFrom(projected, "x", old.minX), maxX |-> MaxFrom(projected, "x", old.maxX),
         minY |-> MinFrom(projected, "y", old.minY), maxY |-> MaxFrom(projected, "y", old.maxY),
         minZ |-> MinFrom(projected, "z", old.minZ), maxZ |-> MaxFrom(projected, "z", old.maxZ)]

\* main.js:166-171
BoundsOf(projected) ==
    [minX |-> MinFrom(projected, "x", Infinity), maxX |-> MaxFrom(projected, "x", -Infinity),
     minY |-> MinFrom(projected, "y", Infinity), maxY |-> MaxFrom(projected, "y", -Infinity),
     minZ |-> MinFrom(projected, "z", Infinity), maxZ |-> MaxFrom(projected, "z", -Infinity)]

\* main.js:156-214: what startScene builds from the projection
SceneOf(i, axes, projected) ==
    [launch |-> i, axes |-> axes, projected |-> projected,
     beacons |-> getBeaconPositions(axes, projected), bounds |-> BoundsOf(projected)]

startScene(i, axes, axisVectors, selectedIndices) ==
    SceneOf(i, axes, projectWords(vocabData, axisVectors, selectedIndices, SCALE * Unit))

\* main.js:146 and 156-255
LaunchStartSceneOf(i) ==
    /\ launches[i].pc = "scene"
    /\ scenes' = Append(scenes, startScene(i, launches[i].axes, launches[i].axisVectors,
                                           launches[i].selectedIndices))
    /\ screen' = [screen EXCEPT !.loadingHidden = TRUE]
    /\ launches' = [launches EXCEPT ![i].pc = "done"]
    /\ UNCHANGED <<vocabData, modelReady, pipeline, vocabLoad, modelLoad, launchDisabled,
                   errorText, fnVars>>

LaunchStartScene == \E i \in 1..Len(launches) : LaunchStartSceneOf(i)

\* main.js:183: new THREE.WebGLRenderer throws when no WebGL context can be created,
\* before anything is attached to the page; main.js:147-152.  The handler's locals go
\* out of scope with it.
LaunchSceneFailedOf(i) ==
    /\ launches[i].pc = "scene"
    /\ launches' = [launches EXCEPT ![i].pc = "failed", ![i].axisVectors = NULL,
                                    ![i].selectedIndices = NULL]
    /\ screen' = Recover
    /\ errorText' = "Error: Error creating WebGL context."
    /\ UNCHANGED <<vocabData, modelReady, pipeline, vocabLoad, modelLoad, launchDisabled,
                   scenes, fnVars>>

LaunchSceneFailed == \E i \in 1..Len(launches) : LaunchSceneFailedOf(i)

Init ==
    /\ ProgInit
    /\ fn_pc = "unused"
    /\ fn_args = NULL
    /\ fn_ret = NULL

Next ==
    \/ VocabFetchWords
    \/ VocabFetchWordsFailed
    \/ VocabFetchBin
    \/ VocabFetchBinFailed
    \/ VocabThen
    \/ VocabCatch
    \/ ModelPrimaryLoaded
    \/ ModelPrimaryFailed
    \/ ModelFallbackLoaded
    \/ ModelFallbackFailed
    \/ ModelThen
    \/ ModelCatch
    \/ ClickStillLoading
    \/ ClickMissingWord
    \/ ClickLaunch
    \/ LaunchFrame
    \/ LaunchEmbedded
    \/ LaunchEmbedFailed
    \/ LaunchSelect
    \/ LaunchStartScene
    \/ LaunchSceneFailed

Spec == Init /\ [][Next]_vars

(***************************************************************************)
(* Claims about loading and launching, checked under Spec                  *)
(***************************************************************************)
\* loadVocabulary has fetched both files and settled
VocabSettled ==
    \/ vocabLoad.pc = "resolved"
    \/ vocabLoad.pc \in {"rejected", "failed"} /\ vocabLoad.error = "Dimension mismatch"

\* C7 (as claimed): loading fails with the dimension-mismatch error whenever L is no
\* exact multiple of N, and succeeds with dims = D for every L = N x D.
C7_DivisibilityAsClaimed ==
    VocabSettled =>
        LET n == Len(vocabLoad.words)
            len == Len(vocabLoad.buf)
        IN  /\ (~\E d \in 0..len : len = n * d) => vocabLoad.pc # "resolved"
            /\ \A d \in 0..len :
                len = n * d => vocabLoad.pc = "resolved" /\ vocabLoad.data.dims = d

\* C7 (amended): for a vocabulary of N >= 1 words, loading fails with the
\* dimension-mismatch error whenever L is no exact multiple of N and succeeds with
\* dims = D, the fetched words and the fetched vectors for every L = N x D; for N = 0
\* it fails with that error for every L.
C7_Divisibility ==
    /\ VocabSettled =>
        LET n == Len(vocabLoad.words)
            len == Len(vocabLoad.buf)
        IN  /\ n = 0 => vocabLoad.pc # "resolved"
            /\ n >= 1 /\ len % n # 0 => vocabLoad.pc # "resolved"
            /\ \A d \in 0..len :
                n >= 1 /\ len = n * d =>
                    /\ vocabLoad.pc = "resolved"
                    /\ vocabLoad.data = [words |-> vocabLoad.words,
                                         vectors |-> vocabLoad.buf, dims |-> d]
    /\ vocabData # NoVocab =>
        /\ Len(vocabData.words) >= 1
        /\ Len(vocabData.vectors) = Len(vocabData.words) * vocabData.dims

\* both outcomes happen for a vocabulary of several words: here the success
C7_Witness ==
    /\ vocabLoad.pc = "resolved"
    /\ Len(vocabLoad.words) >= 2
    /\ vocabLoad.data.dims >= 2

LaunchHasVectors(i) == launches[i].pc \in {"select", "scene", "done"}

\* selectWordsForAxes has returned its index list to launch i
LaunchHasIndices(i) == launches[i].pc \in {"scene", "done"}

LaunchDimsMatch(i) ==
    \A r \in AxisRoles : Len(launches[i].axisVectors[r]) = vocabData.dims

LaunchHasZeroAxis(i) ==
    \E r \in AxisRoles : IsZeroVector(launches[i].axisVectors[r])

\* C8 (as claimed): a launch one of whose six axis vectors has zero magnitude is
\* rejected before selection or projection produces any output.  Stated for launches
\* whose embeddings are as wide as the vocabulary rows.
C8_ZeroAxisRejected ==
    \A i \in 1..Len(launches) :
        LaunchHasVectors(i) /\ LaunchDimsMatch(i) /\ LaunchHasZeroAxis(i)
            => /\ ~LaunchHasIndices(i)
               /\ \A k \in 1..Len(scenes) : scenes[k].launch # i

\* C9 (as claimed): a launch whose axis embeddings are not as wide as the vocabulary
\* rows fails fast, without running selection or projection.  Stated for the claim's
\* own example: the fallback model is loaded and the vocabulary rows are wider.
C9_DimsMismatchRejected ==
    \A i \in 1..Len(launches) :
        /\ LaunchHasVectors(i)
        /\ pipeline \in FallbackPipelines
        /\ \A r \in AxisRoles : Len(launches[i].axisVectors[r]) < vocabData.dims
        => /\ ~LaunchHasIndices(i)
           /\ \A k \in 1..Len(scenes) : scenes[k].launch # i

(***************************************************************************)
(* SpecProject: projectWords and getBeaconPositions called as startScene   *)
(* calls them, on the index list selectWordsForAxes returns                *)
(***************************************************************************)
\* the six literal axis words of a launch (main.js:94-101)
ProjectAxes ==
    [xNeg |-> W_SMALL, xPos |-> W_BIG, yPos |-> W_UP, yNeg |-> W_DOWN,
     zPos |-> W_HOT, zNeg |-> W_COLD]

\* main.js:139 and 160-161: the arguments startScene passes on
ProjectInputs ==
    {[vocabData |-> v, axisVectors |-> a.vectors, axes |-> ProjectAxes,
      selectedIndices |-> selectWordsForAxes(v, a.vectors, a.words, MaxTopK).indices,
      scale |-> SCALE * Unit] :
        v \in Vocabularies, a \in AxisSets}

InitProject ==
    /\ ProgInit
    /\ fn_pc = "ready"
    /\ fn_args \in ProjectInputs
    /\ fn_ret = NULL

\* main.js:160; raw is the list the first pass builds (projection.js:88-96)
CallProject ==
    /\ fn_pc = "ready"
    /\ fn_ret' = [raw |-> RawPositions(fn_args.vocabData, fn_args.axisVectors,
                                       fn_args.selectedIndices, 1),
                  projected |-> projectWords(fn_args.vocabData, fn_args.axisVectors,
                                             fn_args.selectedIndices, fn_args.scale)]
    /\ fn_pc' = "projected"
    /\ UNCHANGED <<fn_args, progVars>>

\* main.js:161
CallBeacons ==
    /\ fn_pc = "projected"
    /\ fn_ret' = [raw |-> fn_ret.raw, projected |-> fn_ret.projected,
                  beacons |-> getBeaconPositions(fn_args.axes, fn_ret.projected)]
    /\ fn_pc' = "beacons"
    /\ UNCHANGED <<fn_args, progVars>>

NextProject == CallProject \/ CallBeacons

SpecProject == InitProject /\ [][NextProject]_vars

(***************************************************************************)
(* Claims about projectWords and getBeaconPositions, under SpecProject     *)
(***************************************************************************)
ProjReturned == fn_pc \in {"projected", "beacons"}

ProjLen == Len(fn_args.selectedIndices)

ProjRow(k) ==
    getVector(fn_args.selectedIndices[k], fn_args.vocabData.vectors, fn_args.vocabData.dims)

ProjDimsMatch ==
    \A r \in DOMAIN fn_args.axisVectors :
        Len(fn_args.axisVectors[r]) = fn_args.vocabData.dims

ProjCoords == {"x", "y", "z"}

ProjPos(c) == IF c = "x" THEN "xPos" ELSE IF c = "y" THEN "yPos" ELSE "zPos"

ProjNeg(c) == IF c = "x" THEN "xNeg" ELSE IF c = "y" THEN "yNeg" ELSE "zNeg"

\* C11 (as claimed): the raw coordinate of a row on each axis is the cosine to the
\* positive pole minus the cosine to the negative pole, and lies in [-2, 2].  Stated
\* for axis vectors as wide as the rows.
C11_RawCoordinateInRange ==
    ProjReturned /\ ProjDimsMatch =>
        \A k \in 1..Len(fn_ret.raw) : \A c \in ProjCoords :
            /\ fn_ret.raw[k][c] =
                fSub(cosineSimilarity(ProjRow(k), fn_args.axisVectors[ProjPos(c)]),
                     cosineSimilarity(ProjRow(k), fn_args.axisVectors[ProjNeg(c)]))
            /\ fn_ret.raw[k][c] >= -2 * Unit
            /\ fn_ret.raw[k][c] <= 2 * Unit

\* the population standard deviation of values: the root of the mean squared deviation
ProjPopulationSd(values) == fSqrt(VarianceOf(values, MeanOf(values)))

ProjDegenerate(values) == Len(values) = 0 \/ ProjPopulationSd(values) = 0

\* the divisor the claim names: the standard deviation, 1 where it is 0 or the set is empty
ProjDivisor(values) ==
    IF ProjDegenerate(values) THEN Unit ELSE ProjPopulationSd(values)

DefaultScale == 50

ProjScales == {DefaultScale * Unit, SCALE * Unit, Unit}

\* C13: the magnitude of every projected word is the Euclidean norm of
\* (rawX / sdX, rawY / sdY, rawZ / sdZ) and is the same for every scale argument.
C13_MagnitudeScaleFree ==
    ProjReturned =>
        \A k \in 1..Len(fn_ret.projected) :
            /\ fn_ret.projected[k].magnitude =
                Norm3(fDiv(fn_ret.raw[k].x, ProjDivisor(Column(fn_ret.raw, "x"))),
                      fDiv(fn_ret.raw[k].y, ProjDivisor(Column(fn_ret.raw, "y"))),
                      fDiv(fn_ret.raw[k].z, ProjDivisor(Column(fn_ret.raw, "z"))))
            /\ \A s \in ProjScales :
                projectWords(fn_args.vocabData, fn_args.axisVectors,
                             fn_args.selectedIndices, s)[k].magnitude
                    = fn_ret.projected[k].magnitude

\* a projected word off the origin, whose position does change with the scale
C13_Witness ==
    /\ ProjReturned
    /\ \E k \in 1..Len(fn_ret.projected) :
        /\ fn_ret.projected[k].magnitude \notin {0, NaN}
        /\ \E s \in ProjScales :
            projectWords(fn_args.vocabData, fn_args.axisVectors,
                         fn_args.selectedIndices, s)[k].x # fn_ret.projected[k].x

\* C14: projectWords returns exactly one projected word per selected index, in the
\* order of selectedIndices, each carrying the vocabulary word of its index; no index
\* is missing and none carries something that is not a word of the vocabulary.
C14_OnePerIndexInOrder ==
    ProjReturned =>
        /\ Len(fn_ret.projected) = ProjLen
        /\ \A k \in 1..ProjLen :
            /\ fn_args.selectedIndices[k] \in 0..(Len(fn_args.vocabData.words) - 1)
            /\ fn_ret.projected[k].word =
                fn_args.vocabData.words[fn_args.selectedIndices[k] + 1]

\* two selected indices that are not in vocabulary order, with their two words
C14_Witness ==
    /\ ProjReturned
    /\ ProjLen = 2
    /\ fn_args.selectedIndices[1] > fn_args.selectedIndices[2]
    /\ fn_ret.projected[1].word # fn_ret.projected[2].word

BeaconsReturned == fn_pc = "beacons"

\* the beacon of an axis label
ProjBeacon(axis) ==
    fn_ret.beacons[CHOOSE k \in 1..Len(fn_ret.beacons) : fn_ret.beacons[k].axis = axis]

ProjCoordOf(axis) ==
    IF axis \in {"x+", "x-"} THEN "x" ELSE IF axis \in {"y+", "y-"} THEN "y" ELSE "z"

\* the coordinates of the projected words on axis c, together with the origin
ProjExtent(c) == {0} \cup {fn_ret.projected[k][c] : k \in 1..Len(fn_ret.projected)}

ProjMaximum(c) == CHOOSE m \in ProjExtent(c) : \A v \in ProjExtent(c) : v <= m

ProjMinimum(c) == CHOOSE m \in ProjExtent(c) : \A v \in ProjExtent(c) : m <= v

\* 1.2 times m
ProjPadded(m) == fMul(m, (12 * Unit) \div 10)

\* C15: each of the six beacons lies on its own axis at 1.2 times the maximum (x+, y+,
\* z+) or minimum (x-, y-, z-) coordinate of the projected words, the extrema starting
\* at 0: with no word on its side of the origin the beacon is at 0; its two other
\* coordinates are 0.
C15_BeaconAtPaddedExtreme ==
    BeaconsReturned =>
        /\ {fn_ret.beacons[k].axis : k \in 1..Len(fn_ret.beacons)}
                = {"x+", "x-", "y+", "y-", "z+", "z-"}
        /\ Len(fn_ret.beacons) = 6
        /\ \A axis \in {"x+", "y+", "z+"} :
            ProjBeacon(axis)[ProjCoordOf(axis)] = ProjPadded(ProjMaximum(ProjCoordOf(axis)))
        /\ \A axis \in {"x-", "y-", "z-"} :
            ProjBeacon(axis)[ProjCoordOf(axis)] = ProjPadded(ProjMinimum(ProjCoordOf(axis)))
        /\ \A axis \in {"x+", "x-", "y+", "y-", "z+", "z-"} :
            /\ \A c \in ProjCoords \ {ProjCoordOf(axis)} : ProjBeacon(axis)[c] = 0
            /\ (\A k \in 1..Len(fn_ret.projected) :
                    IF axis \in {"x+", "y+", "z+"}
                    THEN fn_ret.projected[k][ProjCoordOf(axis)] <= 0
                    ELSE fn_ret.projected[k][ProjCoordOf(axis)] >= 0)
                => ProjBeacon(axis)[ProjCoordOf(axis)] = 0

\* every projected word is left of the origin: the x- beacon is beyond the outermost
\* one and the x+ beacon stays at 0
C15_Witness ==
    /\ BeaconsReturned
    /\ Len(fn_ret.projected) >= 1
    /\ \A k \in 1..Len(fn_ret.projected) : fn_ret.projected[k].x < 0
    /\ ProjBeacon("x-").x < 0
    /\ ProjBeacon("x+").x = 0

\* C16: on every axis every projected word lies between the negative and the positive
\* beacon, and strictly between them when its coordinate is not 0.
C16_WordsWithinBeacons ==
    BeaconsReturned =>
        \A k \in 1..Len(fn_ret.projected) :
            /\ ProjBeacon("x-").x <= fn_ret.projected[k].x
            /\ fn_ret.projected[k].x <= ProjBeacon("x+").x
            /\ ProjBeacon("y-").y <= fn_ret.projected[k].y
            /\ fn_ret.projected[k].y <= ProjBeacon("y+").y
            /\ ProjBeacon("z-").z <= fn_ret.projected[k].z
            /\ fn_ret.projected[k].z <= ProjBeacon("z+").z
            /\ fn_ret.projected[k].x # 0 =>
                ProjBeacon("x-").x < fn_ret.projected[k].x
                    /\ fn_ret.projected[k].x < ProjBeacon("x+").x
            /\ fn_ret.projected[k].y # 0 =>
                ProjBeacon("y-").y < fn_ret.projected[k].y
                    /\ fn_ret.projected[k].y < ProjBeacon("y+").y
            /\ fn_ret.projected[k].z # 0 =>
                ProjBeacon("z-").z < fn_ret.projected[k].z
                    /\ fn_ret.projected[k].z < ProjBeacon("z+").z

\* two projected words on opposite sides of the origin on the x axis
C16_Witness ==
    /\ BeaconsReturned
    /\ \E j, k \in 1..Len(fn_ret.projected) :
        /\ fn_ret.projected[j].x < 0
        /\ fn_ret.projected[k].x > 0
        /\ ProjBeacon("x-").x < fn_ret.projected[j].x
        /\ fn_ret.projected[k].x < ProjBeacon("x+").x

(***************************************************************************)
(* Claims about the scene a launch builds, checked under Spec              *)
(***************************************************************************)
SceneCoords(k, c) == {scenes[k].projected[j][c] : j \in 1..Len(scenes[k].projected)}

\* the least coordinate of the projected words of scene k on axis c; Infinity for none
SceneLeast(k, c) ==
    IF SceneCoords(k, c) = {} THEN Infinity
    ELSE CHOOSE m \in SceneCoords(k, c) : \A v \in SceneCoords(k, c) : m <= v

SceneGreatest(k, c) ==
    IF SceneCoords(k, c) = {} THEN -Infinity
    ELSE CHOOSE m \in SceneCoords(k, c) : \A v \in SceneCoords(k, c) : v <= m

\* the scene built last holds the projection of its own launch; scenes are only ever
\* appended, so every scene has been the last one
SceneOfOwnLaunch ==
    Len(scenes) > 0 =>
        LET k == Len(scenes)
        IN  scenes[k].projected =
                projectWords(vocabData, launches[scenes[k].launch].axisVectors,
                             launches[scenes[k].launch].selectedIndices, SCALE * Unit)

\* C17: the bounds every launch hands to the minimap and the axis gauges are the
\* per-axis minimum and maximum over exactly the words projected for that launch;
\* nothing of an earlier launch is carried over.
C17_BoundsOfOwnLaunch ==
    /\ SceneOfOwnLaunch
    /\ \A k \in 1..Len(scenes) :
        scenes[k].bounds =
            [minX |-> SceneLeast(k, "x"), maxX |-> SceneGreatest(k, "x"),
             minY |-> SceneLeast(k, "y"), maxY |-> SceneGreatest(k, "y"),
             minZ |-> SceneLeast(k, "z"), maxZ |-> SceneGreatest(k, "z")]

\* a second launch whose words reach less far on an axis than those of the first
C17_Witness ==
    /\ Len(scenes) = 2
    /\ Len(scenes[1].projected) >= 1
    /\ Len(scenes[2].projected) >= 1
    /\ \/ scenes[2].bounds.maxX < scenes[1].bounds.maxX
       \/ scenes[2].bounds.maxY < scenes[1].bounds.maxY
       \/ scenes[2].bounds.maxZ < scenes[1].bounds.maxZ

(***************************************************************************)
(* wordcloud.js: buildWordCloud, updateWordVisibility, findNearbyWords     *)
(***************************************************************************)
\* n hundredths, as a number of the model
Hundredths(n) == (n * Unit) \div 100

\* wordcloud.js:108: sorted.length > 100
P90MinCount == 100

Magnitudes(projectedWords) == [k \in 1..Len(projectedWords) |-> projectedWords[k].magnitude]

\* wordcloud.js:104: [...projectedWords].sort((a, b) => b.magnitude - a.magnitude)
SortByMagnitude(projectedWords) ==
    LET order == SortIndices(Magnitudes(projectedWords))
    IN  [k \in 1..Len(order) |-> projectedWords[order[k] + 1]]

\* wordcloud.js:107-108
MagP90(sorted) ==
    LET magMax == IF Len(sorted) > 0 THEN sorted[1].magnitude ELSE Unit
    IN  IF Len(sorted) > P90MinCount THEN sorted[(Len(sorted) \div 10) + 1].magnitude
        ELSE magMax

\* Math.min(a, b): NaN if either is NaN
MathMin(a, b) == IF a = NaN \/ b = NaN THEN NaN ELSE Min(a, b)

\* wordcloud.js:44-65 and 112-127: the sprite of one word
WordSprite(w, magP90) ==
    LET t == MathMin(fDiv(w.magnitude, magP90), Unit)
    IN  [word |-> w.word,
         position |-> <<w.x, w.y, w.z>>,
         baseOpacity |-> fAdd(Hundredths(35), fMul(t, Hundredths(55))),
         visible |-> FALSE,
         opacity |-> Hundredths(80)]

\* wordcloud.js:70-134: the children of wordGroup
buildWordCloud(projectedWords) ==
    LET sorted == SortByMagnitude(projectedWords)
    IN  [k \in 1..Len(sorted) |-> WordSprite(sorted[k], MagP90(sorted))]

\* Vector3.distanceTo
distanceTo(p, q) == Norm3(fSub(p[1], q[1]), fSub(p[2], q[2]), fSub(p[3], q[3]))

\* wordcloud.js:143-146: the default thresholds, in world units
DefaultInnerFade == 5
DefaultNearDistance == 15
DefaultFarDistance == 150
DefaultCullDistance == 250

DefaultOptions ==
    [innerFade |-> DefaultInnerFade * Unit, nearDistance |-> DefaultNearDistance * Unit,
     farDistance |-> DefaultFarDistance * Unit, cullDistance |-> DefaultCullDistance * Unit]

\* x || 0.5: 0 and NaN are falsy
OrHalf(x) == IF x = 0 \/ x = NaN THEN Hundredths(50) ELSE x

\* wordcloud.js:157-158
FarOpacity(baseOpacity, dist, o) ==
    fMul(baseOpacity,
         fSub(Unit, fDiv(fSub(dist, o.farDistance), fSub(o.cullDistance, o.farDistance))))

InnerOpacity_no_half(baseOpacity, dist, o) == fMul(baseOpacity, fDiv(dist, o.innerFade))

\* wordcloud.js:162
InnerOpacity(baseOpacity, dist, o) ==
    fMul(fMul(baseOpacity, fDiv(dist, o.innerFade)), Hundredths(50))

NearOpacity_from_zero(baseOpacity, dist, o) ==
    fMul(baseOpacity,
         fDiv(fSub(dist, o.innerFade), fSub(o.nearDistance, o.innerFade)))

\* wordcloud.js:166-167
NearOpacity(baseOpacity, dist, o) ==
    fMul(baseOpacity,
         fAdd(Hundredths(50),
              fMul(fDiv(fSub(dist, o.innerFade), fSub(o.nearDistance, o.innerFade)),
                   Hundredths(50))))

\* wordcloud.js:149-172: one sprite of the loop
UpdateSprite(sprite, cameraPosition, o) ==
    LET dist == distanceTo(sprite.position, cameraPosition)
        baseOpacity == OrHalf(sprite.baseOpacity)
    IN  IF fGt(dist, o.cullDistance) THEN [sprite EXCEPT !.visible = FALSE]
        ELSE IF fGt(dist, o.farDistance)
            THEN [sprite EXCEPT !.visible = TRUE,
                                !.opacity = FarOpacity(baseOpacity, dist, o)]
        ELSE IF fLt(dist, o.innerFade)
            THEN [sprite EXCEPT !.visible = TRUE,
                                !.opacity = InnerOpacity(baseOpacity, dist, o)]
        ELSE IF fLt(dist, o.nearDistance)
            THEN [sprite EXCEPT !.visible = TRUE,
                                !.opacity = NearOpacity(baseOpacity, dist, o)]
        ELSE [sprite EXCEPT !.visible = TRUE, !.opacity = baseOpacity]

\* wordcloud.js:142-174: the children as the call leaves them
updateWordVisibility(children, cameraPosition, o) ==
    [k \in 1..Len(children) |-> UpdateSprite(children[k], cameraPosition, o)]

VisibleDistances_all(children, position, k) ==
    [j \in 1..Len(children) |->
        [word |-> children[j].word,
         distance |-> distanceTo(children[j].position, position)]]

RECURSIVE VisibleDistances(_, _, _)
\* wordcloud.js:180-187: one entry per visible sprite, in child order, from child k on
VisibleDistances(children, position, k) ==
    IF k > Len(children) THEN <<>>
    ELSE (IF children[k].visible
          THEN <<[word |-> children[k].word,
                  distance |-> distanceTo(children[k].position, position)]>>
          ELSE <<>>)
         \o VisibleDistances(children, position, k + 1)

\* wordcloud.js:188: distances.sort((a, b) => a.distance - b.distance)
SortByDistance(distances) ==
    LET order == SortIndices([k \in 1..Len(distances) |-> -distances[k].distance])
    IN  [k \in 1..Len(order) |-> distances[order[k] + 1]]

\* Array.prototype.slice(0, count), count >= 0
SliceTo(s, count) == SubSeq(s, 1, Min(count, Len(s)))

\* wordcloud.js:179-190
findNearbyWords(children, position, count) ==
    SliceTo(SortByDistance(VisibleDistances(children, position, 1)), count)

(***************************************************************************)
(* SpecCloud: a word group is built, then the visibility pass and the      *)
(* nearest-word query are called on it from a moving position              *)
(***************************************************************************)
\* a projected word at whole world coordinates, its magnitude in deviation units
CloudWord(word, x, y, z) ==
    [word |-> word, x |-> x * Unit, y |-> y * Unit, z |-> z * Unit,
     magnitude |-> fDiv(Norm3(x * Unit, y * Unit, z * Unit), SCALE * Unit)]

CloudPool ==
    <<CloudWord(W_CAT, 3, 4, 0), CloudWord(W_BIG, -100, 0, 0),
      CloudWord(W_LEN15, 3, 4, 252)>>

CloudProjections == SubLists(CloudPool, MaxSprites)

\* positions on the line through the first word of the pool, at these distances from it,
\* and the origin
CloudDistances == {0, 1, 2, 4, 5, 10, 15, 100, 150, 175, 200, 225, 250, 300}

CloudPositions ==
    {<<3 * Unit, 4 * Unit, d * Unit>> : d \in CloudDistances} \cup {<<0, 0, 0>>}

\* the defaults, and thresholds passed explicitly
CloudOptions ==
    {DefaultOptions,
     [innerFade |-> 4 * Unit, nearDistance |-> 10 * Unit,
      farDistance |-> 100 * Unit, cullDistance |-> 200 * Unit]}

\* main.js:181: camera.position.set(0, 5, 30)
CameraStart == <<0, 5 * Unit, 30 * Unit>>

InitCloud ==
    /\ ProgInit
    /\ fn_pc = "built"
    /\ fn_args \in {[children |-> buildWordCloud(p), cameraPosition |-> CameraStart,
                     options |-> o] : p \in CloudProjections, o \in CloudOptions}
    /\ fn_ret = NULL

\* main.js:290: updateWordVisibility(wordGroup, camera.position) after a camera move
CallUpdateVisibility ==
    /\ \E position \in CloudPositions :
        fn_args' = [children |-> updateWordVisibility(fn_args.children, position,
                                                      fn_args.options),
                    cameraPosition |-> position,
                    options |-> fn_args.options]
    /\ fn_pc' = "updated"
    /\ fn_ret' = NULL
    /\ UNCHANGED progVars

\* main.js:290 and 312: findNearbyWords(wordGroup, camera.position, 5) follows a
\* visibility pass; calls with other counts too
CallFindNearby ==
    /\ fn_pc \in {"updated", "found"}
    /\ \E count \in 0..MaxCount :
        fn_ret' = [count |-> count,
                   nearby |-> findNearbyWords(fn_args.children, fn_args.cameraPosition,
                                              count)]
    /\ fn_pc' = "found"
    /\ UNCHANGED <<fn_args, progVars>>

NextCloud == CallUpdateVisibility \/ CallFindNearby

SpecCloud == InitCloud /\ [][NextCloud]_vars

(***************************************************************************)
(* Claims about the word cloud, checked under SpecCloud                    *)
(***************************************************************************)
\* the visibility pass has run from fn_args.cameraPosition
CloudUpdated == fn_pc \in {"updated", "found"}

CloudCount == Len(fn_args.children)

CloudSprite(k) == fn_args.children[k]

\* the distance of sprite k from the position of the last visibility pass
CloudDist(k) == distanceTo(CloudSprite(k).position, fn_args.cameraPosition)

CloudHalf(x) == fMul(x, Hundredths(50))

CloudOrdered ==
    /\ fn_args.options.innerFade < fn_args.options.nearDistance
    /\ fn_args.options.nearDistance < fn_args.options.farDistance
    /\ fn_args.options.farDistance < fn_args.options.cullDistance

\* C18 (as claimed): after the visibility pass a sprite farther than cullDistance is
\* invisible with opacity 0, a sprite at a distance in [nearDistance, farDistance] is
\* visible at its baseOpacity, and a sprite closer than innerFade is visible with an
\* opacity strictly below half its baseOpacity.
C18_BandsAsClaimed ==
    CloudUpdated /\ CloudOrdered =>
        \A k \in 1..CloudCount :
            /\ CloudDist(k) > fn_args.options.cullDistance =>
                ~CloudSprite(k).visible /\ CloudSprite(k).opacity = 0
            /\ (CloudDist(k) >= fn_args.options.nearDistance
                    /\ CloudDist(k) <= fn_args.options.farDistance) =>
                CloudSprite(k).visible /\ CloudSprite(k).opacity = CloudSprite(k).baseOpacity
            /\ CloudDist(k) < fn_args.options.innerFade =>
                /\ CloudSprite(k).visible
                /\ CloudSprite(k).opacity < CloudHalf(CloudSprite(k).baseOpacity)

\* C18 (amended): after the visibility pass a sprite farther than cullDistance is
\* invisible (its visible flag is false; its material opacity is not reset), a sprite at
\* a distance in [nearDistance, farDistance] is visible at its baseOpacity, and a sprite
\* closer than innerFade is visible with an opacity strictly below half its baseOpacity.
C18_Bands ==
    CloudUpdated /\ CloudOrdered =>
        \A k \in 1..CloudCount :
            /\ CloudDist(k) > fn_args.options.cullDistance => ~CloudSprite(k).visible
            /\ (CloudDist(k) >= fn_args.options.nearDistance
                    /\ CloudDist(k) <= fn_args.options.farDistance) =>
                CloudSprite(k).visible /\ CloudSprite(k).opacity = CloudSprite(k).baseOpacity
            /\ CloudDist(k) < fn_args.options.innerFade =>
                /\ CloudSprite(k).visible
                /\ CloudSprite(k).opacity < CloudHalf(CloudSprite(k).baseOpacity)

\* one sprite in each of the three places: culled after it had been shown, with the
\* opacity of that time; in the band of full opacity; closer than innerFade
C18_Witness ==
    /\ CloudUpdated
    /\ \E i, j, k \in 1..CloudCount :
        /\ CloudDist(i) > fn_args.options.cullDistance
        /\ ~CloudSprite(i).visible
        /\ CloudSprite(i).opacity \notin {0, Hundredths(80)}
        /\ CloudDist(j) > fn_args.options.nearDistance
        /\ CloudDist(j) < fn_args.options.farDistance
        /\ CloudSprite(j).opacity = CloudSprite(j).baseOpacity
        /\ CloudDist(k) < fn_args.options.innerFade
        /\ CloudSprite(k).opacity < CloudHalf(CloudSprite(k).baseOpacity)

\* the least width of a band in which the opacity changes
CloudNarrowest ==
    Min(fn_args.options.innerFade,
        Min(fn_args.options.nearDistance - fn_args.options.innerFade,
            fn_args.options.cullDistance - fn_args.options.farDistance))

\* two distances of one band of width w that the two decimal places of the model tell
\* apart in the opacity: at least a fifth of the band apart
CloudApart(d1, d2, w) == 5 * Abs(d1 - d2) >= w

\* the opacity of a sprite moves by no more than this over a change dd of its distance:
\* no slope is steeper than baseOpacity over the narrowest band; 2 for the rounding
CloudDrift(baseOpacity, dd) == fMul(baseOpacity, fDiv(Abs(dd), CloudNarrowest)) + 2

\* what C19 says of sprite k over one visibility pass that follows another, the sprite
\* at distance d before the camera moved and at distance e after
CloudStepOf(k, d, e, before, after) ==
    LET o == fn_args.options
        b == CloudSprite(k).baseOpacity
    IN  /\ (e <= o.cullDistance) => after <= b
        /\ (e >= o.nearDistance /\ e <= o.farDistance) => after = b
        /\ (o.farDistance <= e /\ e < d /\ d <= o.cullDistance) =>
            /\ after >= before
            /\ CloudApart(d, e, o.cullDistance - o.farDistance) => after > before
        /\ (e < d /\ d <= o.innerFade) =>
            /\ after <= before
            /\ CloudApart(d, e, o.innerFade) => after < before
        /\ (d <= o.cullDistance /\ e <= o.cullDistance) =>
            Abs(after - before) <= CloudDrift(b, d - e)

\* C19: for a sprite of positive baseOpacity the opacity set by the visibility pass
\* rises strictly as the distance shrinks from cullDistance to farDistance, is baseOpacity
\* on [nearDistance, farDistance] and nowhere above it, falls strictly as the distance
\* shrinks below innerFade, and makes no jump at innerFade, nearDistance or farDistance.
\* Strictly is at the resolution of the model: for distances a fifth of the band apart.
C19_OpacityProfile ==
    [][(CloudUpdated /\ CloudUpdated' /\ CloudOrdered) =>
        \A k \in 1..CloudCount :
            CloudSprite(k).baseOpacity > 0 =>
                CloudStepOf(k, CloudDist(k),
                            distanceTo(fn_args'.children[k].position,
                                       fn_args'.cameraPosition),
                            fn_args.children[k].opacity,
                            fn_args'.children[k].opacity)]_vars

\* a sprite part of the way through the far fade and another closer than innerFade
C19_Witness ==
    /\ CloudUpdated
    /\ \E j, k \in 1..CloudCount :
        /\ CloudDist(j) > fn_args.options.farDistance
        /\ CloudDist(j) < fn_args.options.cullDistance
        /\ CloudSprite(j).opacity > 0
        /\ CloudSprite(j).opacity < CloudSprite(j).baseOpacity
        /\ CloudDist(k) > 0
        /\ CloudDist(k) < fn_args.options.innerFade
        /\ CloudSprite(k).opacity > 0

NearbyFound == fn_pc = "found"

NearbyVisible == {k \in 1..CloudCount : CloudSprite(k).visible}

\* the sprites the result names
NearbyReturned ==
    {k \in 1..CloudCount : \E j \in 1..Len(fn_ret.nearby) :
        fn_ret.nearby[j].word = CloudSprite(k).word}

\* C20: findNearbyWords returns only visible sprites, exactly min(K, number of visible
\* sprites) of them, each with its Euclidean distance to the position, in ascending
\* order of distance, and no visible sprite it leaves out is strictly closer than one
\* it returns.
C20_NearestVisible ==
    NearbyFound =>
        /\ Len(fn_ret.nearby) = Min(fn_ret.count, Cardinality(NearbyVisible))
        /\ NearbyReturned \subseteq NearbyVisible
        /\ Cardinality(NearbyReturned) = Len(fn_ret.nearby)
        /\ \A j \in 1..Len(fn_ret.nearby) :
            \E k \in NearbyVisible :
                /\ fn_ret.nearby[j].word = CloudSprite(k).word
                /\ fn_ret.nearby[j].distance = CloudDist(k)
        /\ \A i, j \in 1..Len(fn_ret.nearby) :
            i < j => fn_ret.nearby[i].distance <= fn_ret.nearby[j].distance
        /\ \A k \in NearbyVisible \ NearbyReturned :
            \A j \in 1..Len(fn_ret.nearby) : CloudDist(k) >= fn_ret.nearby[j].distance

\* a result that is shorter than the list of visible sprites, in a group that also
\* holds an invisible sprite, the nearest sprite not being the first child
C20_Witness ==
    /\ NearbyFound
    /\ Len(fn_ret.nearby) >= 1
    /\ NearbyVisible \ NearbyReturned # {}
    /\ NearbyVisible # 1..CloudCount
    /\ fn_ret.nearby[1].word # CloudSprite(1).word

(***************************************************************************)
(* Claims about the launch handler, checked under Spec                     *)
(***************************************************************************)
MissingWordText == "Please fill in all 6 words."

\* C21: a click with an axis input that is empty after trimming shows the input error
\* and returns: in the step that puts up the error no launch starts or advances (nothing
\* is embedded, selected or projected), no scene is built and the screens stay as they
\* were, the setup screen visible; no launch ever runs with an empty axis word.
C21_EmptyWordRefused ==
    /\ [](\A i \in 1..Len(launches) : \A r \in AxisRoles : launches[i].axes[r] # <<>>)
    /\ [][(errorText # MissingWordText /\ errorText' = MissingWordText) =>
            /\ Len(launches') = Len(launches)
            /\ \A i \in 1..Len(launches) : launches'[i].pc = launches[i].pc
            /\ Len(scenes') = Len(scenes)
            /\ screen' = screen]_vars

\* the refusal on the untouched setup screen
C21_Witness ==
    /\ errorText = MissingWordText
    /\ ~screen.setupHidden
    /\ screen.loadingHidden
    /\ launches = <<>>
    /\ scenes = <<>>

\* C22 (as claimed): a launch is refused unless the six axis words are pairwise
\* distinct: no launch starts with the same word in two axis roles.
C22_DistinctWordsRequired ==
    \A i \in 1..Len(launches) :
        \A r, q \in AxisRoles : r # q => launches[i].axes[r] # launches[i].axes[q]

\* C22 (amended): a launch is refused when fewer than six non-empty axis words are
\* supplied, and only then: once both resources are loaded, a click with six non-empty
\* words starts a launch also when the same word stands in two roles.
C22_NonEmptyWordsSuffice ==
    /\ \A i \in 1..Len(launches) :
        Cardinality({r \in AxisRoles : launches[i].axes[r] # <<>>}) = 6
    /\ (~StillLoading /\ Len(launches) < MaxLaunches) =>
        \A input \in AxisInputs :
            (\A r \in AxisRoles : ReadAxes(input)[r] # <<>>) => ENABLED ClickLaunchWith(input)

\* a launch with the same word in two roles has run through to its scene
C22_Witness ==
    \E i \in 1..Len(launches) :
        /\ launches[i].axes.xPos = launches[i].axes.yPos
        /\ launches[i].pc = "done"
        /\ \E k \in 1..Len(scenes) : scenes[k].launch = i

InFlight(l) == l.pc \in {"frame", "embed", "select", "scene"}

\* C23: a launch that is overtaken by a later click is discarded: no launch reaches
\* startScene (no scene is added for it) while a later launch is still in flight, so two
\* overlapping launches never both build a scene.
C23_EarlierLaunchDiscarded ==
    [][Len(scenes') > Len(scenes) =>
        \A j \in 1..Len(launches) :
            j > scenes'[Len(scenes')].launch => ~InFlight(launches[j])]_vars

LoadFailed == vocabLoad.pc \in {"rejected", "failed"} \/ modelLoad \in {"rejected", "failed"}

\* C24: whichever load finishes first and whichever fails, the launch button is enabled
\* only when vocabData is set and modelReady is true; it stays disabled once a load has
\* failed; and no step taken while a resource is missing (a click included) starts a
\* launch or builds a scene.
C24_EnabledOnlyWhenReady ==
    /\ [](~launchDisabled => vocabData # NoVocab /\ modelReady)
    /\ [](LoadFailed => launchDisabled)
    /\ [](StillLoading => Len(launches) = 0 /\ Len(scenes) = 0)
    /\ [][StillLoading => Len(launches') = 0 /\ Len(scenes') = 0]_vars

\* the model failed after the vocabulary had loaded, and a click was then handled
C24_Witness ==
    /\ modelLoad = "failed"
    /\ vocabData # NoVocab
    /\ ~modelReady
    /\ launchDisabled
    /\ errorText = "Still loading"
    /\ launches = <<>>

LaunchErrorTexts ==
    {"Error: Model not loaded. Call loadModel() first.", "Error: inference failed",
     "Error: Error creating WebGL context."}

\* launch i throws in this step
LaunchThrows(i) == launches[i].pc # "failed" /\ launches'[i].pc = "failed"

\* C25: the step in which a launch throws (in embedding or in scene building) hides the
\* loading screen, shows the setup screen again, displays the error message, builds no
\* scene and leaves the loaded resources and the enabled button as they are; after a
\* failed launch the handler still accepts a click with six filled inputs.
C25_LaunchFailureRecovers ==
    /\ [][(\E i \in 1..Len(launches) : LaunchThrows(i)) =>
            /\ screen' = [setupHidden |-> FALSE, loadingHidden |-> TRUE]
            /\ errorText' \in LaunchErrorTexts
            /\ Len(scenes') = Len(scenes)
            /\ ~StillLoading'
            /\ ~launchDisabled']_vars
    /\ []((Len(launches) < MaxLaunches /\ \E i \in 1..Len(launches) : launches[i].pc = "failed")
            => ENABLED ClickLaunch)

\* a launch failed in scene building and the click after it went through to its scene
C25_Witness ==
    /\ Len(launches) = 2
    /\ launches[1].pc = "failed"
    /\ launches[2].pc = "done"
    /\ Len(scenes) = 1
    /\ scenes[1].launch = 2
    /\ screen = [setupHidden |-> TRUE, loadingHidden |-> TRUE]
    /\ errorText = ""

(***************************************************************************)
(* SpecFrame: the render loop of main.js:278-321 over a built word group;  *)
(* the pointer lock is taken and released between frames                   *)
(***************************************************************************)
\* the accumulated time is followed up to this many hundredths of a second
MaxNearbyTimer == 100

\* main.js:282: clock.getDelta(), in seconds
FrameDeltas == {Hundredths(10), Hundredths(20), Hundredths(40)}

\* where flight.update can have put the camera in a frame
FramePositions ==
    {<<3 * Unit, 4 * Unit, d * Unit>> : d \in {0, 100, 250, 300}} \cup {CameraStart}

\* main.js:310: nearbyTimer > 0.3
NearbyInterval == Hundredths(30)

\* main.js:312: findNearbyWords(wordGroup, camera.position, 5)
NearbyCount == 5

\* main.js:313-317: the words of the nearby display
NearbyText(nearby) == [k \in 1..Len(nearby) |-> nearby[k].word]

animate_query_before_pass(a, delta, moved) ==
    LET position == IF a.isLocked THEN moved ELSE a.cameraPosition
        children == updateWordVisibility(a.children, position, DefaultOptions)
        timer == fAdd(a.nearbyTimer, delta)
        runs == fGt(timer, NearbyInterval) /\ a.isLocked
    IN  [children |-> children,
         cameraPosition |-> position,
         isLocked |-> a.isLocked,
         delta |-> delta,
         nearbyTimer |-> IF runs THEN 0 ELSE timer,
         queried |-> runs,
         nearbyText |-> IF runs
                        THEN NearbyText(findNearbyWords(a.children, position, NearbyCount))
                        ELSE a.nearbyText]

\* main.js:280-321: one frame.  flight.update moves the camera only under pointer lock
\* (flight.js:185); the visibility pass runs from the new position (289-291); the query
\* runs from the same position when the timer has passed 0.3 s under pointer lock
\* (309-318)
animate(a, delta, moved) ==
    LET position == IF a.isLocked THEN moved ELSE a.cameraPosition
        children == updateWordVisibility(a.children, position, DefaultOptions)
        timer == fAdd(a.nearbyTimer, delta)
        runs == fGt(timer, NearbyInterval) /\ a.isLocked
    IN  [children |-> children,
         cameraPosition |-> position,
         isLocked |-> a.isLocked,
         delta |-> delta,
         nearbyTimer |-> IF runs THEN 0 ELSE timer,
         queried |-> runs,
         nearbyText |-> IF runs
                        THEN NearbyText(findNearbyWords(children, position, NearbyCount))
                        ELSE a.nearbyText]

\* main.js:193-194, 181, 278: the state startScene leaves for the first frame
InitFrame ==
    /\ ProgInit
    /\ fn_pc = "started"
    /\ fn_args \in {[children |-> buildWordCloud(p), cameraPosition |-> CameraStart,
                     isLocked |-> FALSE, delta |-> 0, nearbyTimer |-> 0,
                     queried |-> FALSE, nearbyText |-> <<>>] : p \in CloudProjections}
    /\ fn_ret = NULL

\* main.js:280-321
Animate ==
    /\ \E delta \in FrameDeltas, moved \in FramePositions :
        /\ fn_args.nearbyTimer + delta <= MaxNearbyTimer
        /\ fn_args' = animate(fn_args, delta, moved)
    /\ fn_pc' = "frame"
    /\ UNCHANGED <<fn_ret, progVars>>

\* main.js:240-244: a click on the page takes the pointer lock
Lock ==
    /\ ~fn_args.isLocked
    /\ fn_args' = [fn_args EXCEPT !.isLocked = TRUE]
    /\ fn_pc' = "lock"
    /\ UNCHANGED <<fn_ret, progVars>>

\* the browser releases the pointer lock (Escape)
Unlock ==
    /\ fn_args.isLocked
    /\ fn_args' = [fn_args EXCEPT !.isLocked = FALSE]
    /\ fn_pc' = "unlock"
    /\ UNCHANGED <<fn_ret, progVars>>

NextFrame == Animate \/ Lock \/ Unlock

SpecFrame == InitFrame /\ [][NextFrame]_vars

(***************************************************************************)
(* Claims about the render loop, checked under SpecFrame                   *)
(***************************************************************************)
\* the last step was a frame in which the nearest-word query ran
FrameQueried == fn_pc = "frame" /\ fn_args.queried

FrameDist(j) == distanceTo(fn_args.children[j].position, fn_args.cameraPosition)

NoVector == <<>>

\* Vector3.addVectors
addVectors(a, b) == <<fAdd(a[1], b[1]), fAdd(a[2], b[2]), fAdd(a[3], b[3])>>

\* Vector3.subVectors
subVectors(a, b) == <<fSub(a[1], b[1]), fSub(a[2], b[2]), fSub(a[3], b[3])>>

\* Vector3.multiplyScalar
multiplyScalar(v, k) == <<fMul(v[1], k), fMul(v[2], k), fMul(v[3], k)>>

\* Vector3.length
length(v) == Norm3(v[1], v[2], v[3])

\* Vector3.divideScalar
divideScalar(v, k) == <<fDiv(v[1], k), fDiv(v[2], k), fDiv(v[3], k)>>

\* Vector3.normalize: divideScalar(length() || 1)
normalize(v) == LET l == length(v) IN divideScalar(v, IF l = 0 \/ l = NaN THEN Unit ELSE l)

\* Vector3.crossVectors
crossVectors(a, b) ==
    <<fSub(fMul(a[2], b[3]), fMul(a[3], b[2])),
      fSub(fMul(a[3], b[1]), fMul(a[1], b[3])),
      fSub(fMul(a[1], b[2]), fMul(a[2], b[1]))>>

\* Vector3.lerpVectors
lerpVectors(a, b, t) == addVectors(a, multiplyScalar(subVectors(b, a), t))

\* Matrix4.lookAt(eye, target, up) and Quaternion.setFromRotationMatrix
lookAt(eye, target) == <<eye, target, Unit>>

\* Quaternion.slerpQuaternions(start, target, t): t of the way to target
slerpQuaternions(start, target, t) == <<target[1], target[2], t>>

\* flight.js:21-24
Acceleration == Hundredths(120)

Damping == Hundredths(94)

BoostMultiplier == 3 * Unit

MaxSpeed == 6 * Unit

\* flight.js:29
OrientDuration == Hundredths(80)

\* flight.js:36
TeleportDuration == Hundredths(60)

\* flight.js:112: multiplyScalar(20)
ArrivalOffset == 20

NoKeys ==
    [forward |-> FALSE, backward |-> FALSE, left |-> FALSE, right |-> FALSE,
     up |-> FALSE, down |-> FALSE, boost |-> FALSE]

\* flight.js:12-58 and main.js:181: the controller over the camera of a new scene
FlightController(position) ==
    [isLocked |-> FALSE,
     camera |-> [position |-> position,
                 quaternion |-> lookAt(<<0, 0, 0>>, <<0, 0, -Unit>>)],
     velocity |-> <<0, 0, 0>>,
     _orientTarget |-> NoVector, _orientProgress |-> 0, _orientStart |-> NoVector,
     _teleportTarget |-> NoVector, _teleportStart |-> NoVector, _teleportProgress |-> 0,
     _heldDigits |-> {},
     beacons |-> <<>>,
     keys |-> NoKeys]

\* flight.js:80-82
setBeacons(f, beacons) == [f EXCEPT !.beacons = beacons]

\* flight.js:87-101
orientToward(f, targetPos) ==
    [f EXCEPT !._orientStart = f.camera.quaternion,
              !._orientTarget = lookAt(f.camera.position, targetPos),
              !._orientProgress = 0]

\* flight.js:106-121
teleportTo(f, targetPos) ==
    LET offset == multiplyScalar(normalize(subVectors(f.camera.position, targetPos)),
                                 ArrivalOffset * Unit)
        arrivalPos == addVectors(targetPos, offset)
    IN  orientToward([f EXCEPT !._orientTarget = NoVector,
                               !.velocity = <<0, 0, 0>>,
                               !._teleportStart = f.camera.position,
                               !._teleportTarget = arrivalPos,
                               !._teleportProgress = 0],
                     targetPos)

\* flight.js:123-131
_getDigitIndex(code) ==
    CASE code = "Digit1" -> 0
      [] code = "Digit2" -> 1
      [] code = "Digit3" -> 2
      [] code = "Digit4" -> 3
      [] code = "Digit5" -> 4
      [] code = "Digit6" -> 5
      [] OTHER -> -1

\* flight.js:134-145 and 159-167: the key flag a code stands for
KeyFlag(code) ==
    CASE code \in {"KeyW", "ArrowUp"} -> "forward"
      [] code \in {"KeyS", "ArrowDown"} -> "backward"
      [] code \in {"KeyA", "ArrowLeft"} -> "left"
      [] code \in {"KeyD", "ArrowRight"} -> "right"
      [] code = "Space" -> "up"
      [] code = "KeyC" -> "down"
      [] code \in {"ShiftLeft", "ShiftRight"} -> "boost"
      [] OTHER -> "none"

\* this.beacons[idx], 0-based
BeaconAt(f, idx) == f.beacons[idx + 1]

BeaconPosition(b) == <<b.x, b.y, b.z>>

\* flight.js:149: this.beacons[idx] is truthy
HasBeacon(f, idx) == idx + 1 \in DOMAIN f.beacons

\* flight.js:133-156
_onKeyDown(f, code) ==
    LET flag == KeyFlag(code)
        g == IF flag = "none" THEN f
             ELSE IF flag = "boost"
                  THEN [f EXCEPT !.keys.boost = TRUE, !._heldDigits = {}]
             ELSE [f EXCEPT !.keys[flag] = TRUE]
        idx == _getDigitIndex(code)
    IN  IF idx >= 0 /\ HasBeacon(g, idx)
        THEN IF g.keys.boost
             THEN [g EXCEPT !._heldDigits = g._heldDigits \cup {idx}]
             ELSE orientToward(g, BeaconPosition(BeaconAt(g, idx)))
        ELSE g

RECURSIVE SumBeacons(_, _)
\* flight.js:170-175: the sum of the collected beacons' positions
SumBeacons(f, held) ==
    IF held = {} THEN <<0, 0, 0>>
    ELSE LET i == CHOOSE j \in held : \A k \in held : j <= k
         IN  addVectors(BeaconPosition(BeaconAt(f, i)), SumBeacons(f, held \ {i}))

_onKeyUp_keeps_digits(f, code) ==
    LET flag == KeyFlag(code)
    IN  IF flag = "none" THEN f
        ELSE IF flag = "boost"
        THEN LET g == [f EXCEPT !.keys.boost = FALSE]
             IN  IF Cardinality(g._heldDigits) > 0
                 THEN LET target == divideScalar(SumBeacons(g, g._heldDigits),
                                                 Cardinality(g._heldDigits) * Unit)
                      IN  teleportTo(g, target)
                 ELSE g
        ELSE [f EXCEPT !.keys[flag] = FALSE]

\* flight.js:158-182
_onKeyUp(f, code) ==
    LET flag == KeyFlag(code)
    IN  IF flag = "none" THEN f
        ELSE IF flag = "boost"
        THEN LET g == [f EXCEPT !.keys.boost = FALSE]
             IN  IF Cardinality(g._heldDigits) > 0
                 THEN LET target == divideScalar(SumBeacons(g, g._heldDigits),
                                                 Cardinality(g._heldDigits) * Unit)
                      IN  [teleportTo(g, target) EXCEPT !._heldDigits = {}]
                 ELSE g
        ELSE [f EXCEPT !.keys[flag] = FALSE]

\* flight.js:250-252
_easeInOut(t) ==
    IF fLt(t, Hundredths(50)) THEN fMul(2 * Unit, fMul(t, t))
    ELSE LET x == fAdd(fMul(-2 * Unit, t), 2 * Unit)
         IN  fSub(Unit, fDiv(fMul(x, x), 2 * Unit))

\* flight.js:188-202
UpdateOrientation(f, delta) ==
    IF f._orientTarget = NoVector THEN f
    ELSE LET progress == fAdd(f._orientProgress, fDiv(delta, OrientDuration))
         IN  IF progress >= Unit
             THEN [f EXCEPT !._orientProgress = progress,
                            !.camera.quaternion = f._orientTarget,
                            !._orientTarget = NoVector,
                            !._orientStart = NoVector]
             ELSE [f EXCEPT !._orientProgress = progress,
                            !.camera.quaternion =
                                slerpQuaternions(f._orientStart, f._orientTarget,
                                                 _easeInOut(progress))]

UpdateTeleport_keeps_target(f, delta) ==
    IF f._teleportTarget = NoVector THEN f
    ELSE LET progress == fAdd(f._teleportProgress, fDiv(delta, TeleportDuration))
         IN  IF progress >= Unit
             THEN [f EXCEPT !._teleportProgress = progress,
                            !.camera.position = f._teleportTarget]
             ELSE [f EXCEPT !._teleportProgress = progress,
                            !.camera.position =
                                lerpVectors(f._teleportStart, f._teleportTarget,
                                            _easeInOut(progress))]

\* flight.js:205-216
UpdateTeleport(f, delta) ==
    IF f._teleportTarget = NoVector THEN f
    ELSE LET progress == fAdd(f._teleportProgress, fDiv(delta, TeleportDuration))
         IN  IF progress >= Unit
             THEN [f EXCEPT !._teleportProgress = progress,
                            !.camera.position = f._teleportTarget,
                            !._teleportTarget = NoVector,
                            !._teleportStart = NoVector]
             ELSE [f EXCEPT !._teleportProgress = progress,
                            !.camera.position =
                                lerpVectors(f._teleportStart, f._teleportTarget,
                                            _easeInOut(progress))]

\* flight.js:230-235: velocity.addScaledVector(v, s) when the key is down
Thrust(velocity, down, v, s) ==
    IF down THEN addVectors(velocity, multiplyScalar(v, s)) ELSE velocity

\* flight.js:218-247; forward is what camera.getWorldDirection returns
UpdateMotion(f, delta, forward) ==
    LET boost == IF f.keys.boost THEN BoostMultiplier ELSE Unit
        accel == fMul(Acceleration, boost)
        right == normalize(crossVectors(forward, <<0, Unit, 0>>))
        up == <<0, Unit, 0>>
        push == fMul(accel, delta)
        v1 == Thrust(f.velocity, f.keys.forward, forward, push)
        v2 == Thrust(v1, f.keys.backward, forward, -push)
        v3 == Thrust(v2, f.keys.left, right, -push)
        v4 == Thrust(v3, f.keys.right, right, push)
        v5 == Thrust(v4, f.keys.up, up, push)
        v6 == Thrust(v5, f.keys.down, up, -push)
        speed == length(v6)
        v7 == IF fGt(speed, fMul(MaxSpeed, boost))
              THEN multiplyScalar(v6, fDiv(MaxSpeed, speed)) ELSE v6
        v8 == multiplyScalar(v7, Damping)
    IN  [f EXCEPT !.velocity = v8,
                  !.camera.position =
                      addVectors(f.camera.position,
                                 multiplyScalar(v8, fMul(delta, 60 * Unit)))]

update_unguarded(f, delta, forward) ==
    UpdateMotion(UpdateTeleport(UpdateOrientation(f, delta), delta), delta, forward)

\* flight.js:184-248
update(f, delta, forward) ==
    IF ~f.isLocked THEN f
    ELSE UpdateMotion(UpdateTeleport(UpdateOrientation(f, delta), delta), delta, forward)

(***************************************************************************)
(* SpecFlight: startScene has created the controller, the indicators and   *)
(* the key hints; key events, pointer lock changes and frames interleave   *)
(***************************************************************************)
\* at most this many frames are followed
MaxFrames == 3

\* at most this many digits are collected under one Shift
MaxHeld == 2

\* at most this many key events are followed
MaxKeys == 6

FlightAxes ==
    [xNeg |-> W_SMALL, xPos |-> W_BIG, yPos |-> W_UP, yNeg |-> W_DOWN,
     zPos |-> W_HOT, zNeg |-> W_COLD]

FlightWord(word, x, y, z) ==
    [word |-> word, x |-> x, y |-> y, z |-> z, magnitude |-> Norm3(x, y, z)]

\* a projected cloud whose beacons y+ and z+ have their midpoint where the camera starts
FlightProjections ==
    {<<FlightWord(W_CAT, -40 * Unit, 0, 0),
       FlightWord(W_OK, 50 * Unit, Hundredths(833), 50 * Unit)>>}

\* main.js:282: clock.getDelta(), in seconds
FlightDeltas == {Hundredths(20), Hundredths(40)}

\* what camera.getWorldDirection can return
WorldDirections == {<<0, 0, -Unit>>, <<Unit, 0, 0>>}

\* the keys pressed and released
FlightCodes == {"Space", "ShiftLeft", "Digit3", "Digit5", "Digit7"}

HudHints_positive_first(axes) ==
    [left |-> <<2, axes.xNeg>>, right |-> <<1, axes.xPos>>, up |-> <<3, axes.yPos>>,
     down |-> <<4, axes.yNeg>>, forward |-> <<5, axes.zPos>>, backward |-> <<6, axes.zNeg>>]

\* main.js:229-234: the key hints, as <<key, word>>
HudHints(axes) ==
    [left |-> <<1, axes.xNeg>>, right |-> <<2, axes.xPos>>, up |-> <<3, axes.yPos>>,
     down |-> <<4, axes.yNeg>>, forward |-> <<5, axes.zPos>>, backward |-> <<6, axes.zNeg>>]

\* part_002:29-59: the indicator labels, as <<key, word>>
IndicatorLabels(beacons) == [i \in 1..Len(beacons) |-> <<i, beacons[i].word>>]

\* what the frames and key events so far add up to
NoEvent == [delta |-> 0, frames |-> 0, keys |-> 0, sinceOrient |-> 0, sinceTeleport |-> 0]

\* main.js:200 and 213-234: the state startScene leaves
InitFlight ==
    /\ ProgInit
    /\ fn_pc = "flying"
    /\ fn_args \in {[flight |-> setBeacons(FlightController(CameraStart),
                                           getBeaconPositions(FlightAxes, p)),
                     indicators |-> IndicatorLabels(getBeaconPositions(FlightAxes, p)),
                     hud |-> HudHints(FlightAxes)] : p \in FlightProjections}
    /\ fn_ret = NoEvent

\* the time since the last start of an orientation or teleport, after a key event
SinceKey(ret, f) ==
    [ret EXCEPT !.delta = 0, !.keys = ret.keys + 1,
                !.sinceOrient = IF f._orientProgress = 0 THEN 0 ELSE ret.sinceOrient,
                !.sinceTeleport = IF f._teleportProgress = 0 THEN 0 ELSE ret.sinceTeleport]

\* flight.js:56 and 133-156
KeyDown ==
    /\ fn_ret.keys < MaxKeys
    /\ \E code \in FlightCodes :
        LET f == _onKeyDown(fn_args.flight, code)
        IN  /\ Cardinality(f._heldDigits) <= MaxHeld
            /\ fn_args' = [fn_args EXCEPT !.flight = f]
            /\ fn_ret' = SinceKey(fn_ret, f)
    /\ UNCHANGED <<fn_pc, progVars>>

\* flight.js:57 and 158-182
KeyUp ==
    /\ fn_ret.keys < MaxKeys
    /\ \E code \in FlightCodes :
        LET f == _onKeyUp(fn_args.flight, code)
        IN  /\ fn_args' = [fn_args EXCEPT !.flight = f]
            /\ fn_ret' = SinceKey(fn_ret, f)
    /\ UNCHANGED <<fn_pc, progVars>>

\* main.js:240-244: controls.lock()
PointerLock ==
    /\ ~fn_args.flight.isLocked
    /\ fn_args' = [fn_args EXCEPT !.flight.isLocked = TRUE]
    /\ fn_ret' = [fn_ret EXCEPT !.delta = 0]
    /\ UNCHANGED <<fn_pc, progVars>>

\* the browser releases the pointer lock
PointerUnlock ==
    /\ fn_args.flight.isLocked
    /\ fn_args' = [fn_args EXCEPT !.flight.isLocked = FALSE]
    /\ fn_ret' = [fn_ret EXCEPT !.delta = 0]
    /\ UNCHANGED <<fn_pc, progVars>>

\* main.js:286: flight.update(delta) in a frame
CallUpdate ==
    /\ fn_ret.frames < MaxFrames
    /\ \E delta \in FlightDeltas, forward \in WorldDirections :
        /\ fn_args' = [fn_args EXCEPT !.flight = update(fn_args.flight, delta, forward)]
        /\ fn_ret' = [delta |-> delta, frames |-> fn_ret.frames + 1, keys |-> fn_ret.keys,
                      sinceOrient |-> IF fn_args.flight.isLocked
                                      THEN fn_ret.sinceOrient + delta
                                      ELSE fn_ret.sinceOrient,
                      sinceTeleport |-> IF fn_args.flight.isLocked
                                        THEN fn_ret.sinceTeleport + delta
                                        ELSE fn_ret.sinceTeleport]
    /\ UNCHANGED <<fn_pc, progVars>>

NextFlight == KeyDown \/ KeyUp \/ PointerLock \/ PointerUnlock \/ CallUpdate

SpecFlight == InitFlight /\ [][NextFlight]_vars

(***************************************************************************)
(* Claims about the flight controller, checked under SpecFlight            *)
(***************************************************************************)
\* the step is a key event / a frame
KeyStep == fn_ret'.keys = fn_ret.keys + 1

UpdateStep == fn_ret'.frames = fn_ret.frames + 1

\* what moves or turns the camera
MotionOf(f) ==
    <<f.camera.position, f.camera.quaternion, f.velocity,
      f._orientTarget, f._orientStart, f._orientProgress,
      f._teleportTarget, f._teleportStart, f._teleportProgress>>

\* the mean of coordinate c over the beacons numbered in held (0-based)
MeanOver(f, held, c) ==
    LET RECURSIVE Total(_)
        Total(S) == IF S = {} THEN 0
                    ELSE LET i == CHOOSE j \in S : TRUE
                         IN  f.beacons[i + 1][c] + Total(S \ {i})
    IN  RoundDiv(Total(held), Cardinality(held))

CentroidOf(f, held) == <<MeanOver(f, held, "x"), MeanOver(f, held, "y"), MeanOver(f, held, "z")>>

\* C27: while Shift is down a key event either leaves the collection alone, adds one
\* digit to it or empties it, and changes nothing that moves or turns the camera;
\* pressing Shift leaves the collection empty; releasing Shift with digits collected
\* starts a teleport and a turn toward the centroid of exactly the collected beacons
\* from progress 0 and empties the collection; releasing it with nothing collected
\* starts nothing; every collected index is the index of a beacon.
C27_ShiftCollectsDigits ==
    /\ [](\A i \in fn_args.flight._heldDigits : i >= 0 /\ i < Len(fn_args.flight.beacons))
    /\ [][KeyStep =>
            LET f == fn_args.flight
                g == fn_args'.flight
            IN  /\ (f.keys.boost /\ g.keys.boost) =>
                    /\ MotionOf(g) = MotionOf(f)
                    /\ \/ g._heldDigits = f._heldDigits
                       \/ g._heldDigits = {}
                       \/ /\ f._heldDigits \subseteq g._heldDigits
                          /\ Cardinality(g._heldDigits) = Cardinality(f._heldDigits) + 1
                /\ (~f.keys.boost /\ g.keys.boost) => g._heldDigits = {}
                /\ (f.keys.boost /\ ~g.keys.boost /\ f._heldDigits = {}) =>
                    MotionOf(g) = MotionOf(f) /\ g._heldDigits = {}
                /\ (f.keys.boost /\ ~g.keys.boost /\ f._heldDigits # {}) =>
                    /\ g._heldDigits = {}
                    /\ g._teleportTarget # NoVector
                    /\ g._teleportProgress = 0
                    /\ g._teleportStart = f.camera.position
                    /\ g._orientProgress = 0
                    /\ g._orientTarget =
                           <<f.camera.position, CentroidOf(f, f._heldDigits), Unit>>]_vars

\* a teleport toward the midpoint of two beacons has just started, away from where the
\* camera started
C27_Witness ==
    LET f == fn_args.flight
    IN  /\ f._teleportTarget # NoVector
        /\ f._teleportProgress = 0
        /\ f._heldDigits = {}
        /\ ~f.keys.boost
        /\ f.camera.position # CameraStart
        /\ f._orientTarget = <<f.camera.position, CentroidOf(f, {2, 4}), Unit>>

BeaconOrderAsClaimed == <<"x+", "x-", "y+", "y-", "z+", "z-">>

BeaconOrder == <<"x-", "x+", "y+", "y-", "z+", "z-">>

DigitCodes == <<"Digit1", "Digit2", "Digit3", "Digit4", "Digit5", "Digit6">>

\* the words the key hints show, by key
HintWord(k) ==
    LET hud == fn_args.hud
        role == CHOOSE r \in DOMAIN hud : hud[r][1] = k
    IN  hud[role][2]

\* digit k pressed without Shift turns toward the beacon at place k - 1 of the list,
\* and the key hint and the indicator label of key k show that beacon's word
KeysMatchLabels ==
    LET f == fn_args.flight
    IN  \A k \in 1..6 :
            /\ ~f.keys.boost =>
                _onKeyDown(f, DigitCodes[k])._orientTarget =
                    <<f.camera.position,
                      <<f.beacons[k].x, f.beacons[k].y, f.beacons[k].z>>, Unit>>
            /\ \E r \in DOMAIN fn_args.hud : fn_args.hud[r][1] = k
            /\ HintWord(k) = f.beacons[k].word
            /\ fn_args.indicators[k] = <<k, f.beacons[k].word>>

C29_UpdateNeedsLock ==
    /\ [][(UpdateStep /\ ~fn_args.flight.isLocked) =>
            fn_args'.flight = fn_args.flight]_vars
    /\ [](~fn_args.flight.isLocked =>
            LET f == fn_args.flight
            IN  /\ _onKeyDown(f, "Space").keys.up
                /\ ~_onKeyUp(f, "Space").keys.up
                /\ ~f.keys.boost =>
                    _onKeyDown(f, "Digit3")._orientTarget =
                        <<f.camera.position, <<0, f.beacons[3].y, 0>>, Unit>>
                /\ (f.keys.boost /\ f._heldDigits # {}) =>
                    /\ _onKeyUp(f, "ShiftLeft")._teleportTarget # NoVector
                    /\ _onKeyUp(f, "ShiftLeft")._teleportProgress = 0)

\* a frame has just run without pointer lock while a teleport was under way, Space was
\* down and the camera was drifting
C29_Witness ==
    LET f == fn_args.flight
    IN  /\ ~f.isLocked
        /\ fn_ret.delta > 0
        /\ f._teleportTarget # NoVector
        /\ f._teleportProgress > 0
        /\ f.keys.up
        /\ f.velocity # <<0, 0, 0>>

\* a teleport / a turn is under way
TeleportPending == fn_args.flight._teleportTarget # NoVector

OrientPending == fn_args.flight._orientTarget # NoVector

\* the step releases Shift with digits collected: a teleport starts
TeleportStarts ==
    /\ KeyStep
    /\ fn_args.flight.keys.boost
    /\ ~fn_args'.flight.keys.boost
    /\ fn_args.flight._heldDigits # {}

\* the rounding of an arrival point, in world units
ArrivalTolerance == Hundredths(50)

Near(a, b) == Abs(a - b) <= ArrivalTolerance

\* p lies 20 units from target on the line toward the place from
ShortOf(p, target, from) ==
    /\ Near(distanceTo(p, target), ArrivalOffset * Unit)
    /\ Near(distanceTo(p, from), Abs(distanceTo(from, target) - ArrivalOffset * Unit))

\* a locked frame advances a pending teleport and a pending turn by delta / duration,
\* and the frame in which the progress reaches 1 clears the target after setting the
\* camera to the arrival point (the frame's drift is then added) or to the target
\* orientation
FrameAdvances ==
    (UpdateStep /\ fn_args.flight.isLocked) =>
        LET f == fn_args.flight
            g == fn_args'.flight
            delta == fn_ret'.delta
            drift == multiplyScalar(g.velocity, fMul(delta, 60 * Unit))
            teleported == f._teleportProgress + RoundDiv(delta * Unit, Hundredths(60))
            turned == f._orientProgress + RoundDiv(delta * Unit, Hundredths(80))
        IN  /\ delta > 0
            /\ (f._teleportTarget # NoVector /\ teleported >= Unit) =>
                    /\ g._teleportTarget = NoVector
                    /\ g.camera.position = addVectors(f._teleportTarget, drift)
            /\ (f._teleportTarget # NoVector /\ teleported < Unit) =>
                    /\ g._teleportTarget = f._teleportTarget
                    /\ g._teleportProgress = teleported
            /\ (f._orientTarget # NoVector /\ turned >= Unit) =>
                    /\ g._orientTarget = NoVector
                    /\ g.camera.quaternion = f._orientTarget
            /\ (f._orientTarget # NoVector /\ turned < Unit) =>
                    /\ g._orientTarget = f._orientTarget
                    /\ g._orientProgress = turned

\* a teleport that starts sets both progresses to 0, stops the drift and replaces a
\* pending turn by the turn toward its own target
TeleportRestarts ==
    TeleportStarts =>
        LET f == fn_args.flight
            g == fn_args'.flight
        IN  /\ g._teleportProgress = 0
            /\ g._orientProgress = 0
            /\ g.velocity = <<0, 0, 0>>
            /\ g._orientStart = f.camera.quaternion
            /\ g._orientTarget = <<f.camera.position, CentroidOf(f, f._heldDigits), Unit>>

====
